---------------------------- MODULE Spec2Model ----------------------------
(***************************************************************************)
(* A model of the vim logo builder (ShayHill/vimlogo): the glyph helpers   *)
(* (de-duplication of adjacent values, the path data string, the polygon   *)
(* union), the 90-degree bevel of the letter V, the uniform shading model  *)
(* and the calibration of a material colour.                               *)
(*                                                                         *)
(* Every routine is a pure function or a short loop over one mutable       *)
(* object, so each has a specification of its own over the shared          *)
(* variables: SpecDedup, SpecUnion, SpecIllum, SpecCalib, SpecPath and     *)
(* SpecBevel.  The variables of the other routines stay idle.              *)
(***************************************************************************)
EXTENDS Integers, Sequences, FiniteSets, TLC

VARIABLES
    \* _remove_identical_adjacent_values
    values,        \* the argument `values`
    useKey,        \* TRUE when a key function is passed
    keep_ixs,      \* the local keep_ixs (0-based indices), <<>> before the call
    result,        \* the returned list
    result2,       \* the list returned for `result` as the argument
    dpc            \* "idle" | "call" | "done" | "again"

VARIABLES
    \* get_polygon_union
    pnt_lists,     \* the argument *pnt_lists, each polygon as the region it encloses
    negative,      \* the argument negative (0-based indices), {} for None
    ui,            \* the loop index i of enumerate(pnt_lists)
    union,         \* the local union (a region)
    uresult,       \* the region of the returned outlines
    rings,         \* the list returned, each ring as the squares it encloses
    upc            \* "idle" | "loop" | "done"

VARIABLES
    \* _bevel_90_turns
    bpts,          \* the argument pts
    bev,           \* the bevel size (SML_BEV)
    new_pts,       \* the returned list, or the ValueError raised
    new_pts2,      \* the result of the call repeated on new_pts
    bpc            \* "idle" | "call" | "done" | "again"

VARIABLES
    \* illuminate
    normal_vector, \* the argument normal_vector
    material,      \* the Material handed to illuminate
    material0,     \* the fields of the material when illuminate was called
    light_sources, \* the argument *light_sources
    unit_normal,   \* the local normal_vector once normalized
    colors,        \* the list colors of the shades computed so far
    sum_vector,    \* the local sum_vector
    hex,           \* the returned colour, six hexadecimal digits
    ipc            \* "idle" | "call" | "normalize" | "shade" | "restore" |
                   \* "return" | "done" | "ValueError" | "ZeroDivisionError"

VARIABLES
    \* new_data_string and _get_pts_from_datastring
    path_lists,    \* the argument *pts_lists of new_data_string
    datastring,    \* the string new_data_string returned, or its error
    parsed,        \* the points _get_pts_from_datastring returned, or its error
    ppc            \* "idle" | "call" | "written" | "parsed"

VARIABLES
    \* the calibration of a material colour
    c_normal,      \* the argument normal_vector
    c_material,    \* the material handed to the calibration
    c_material0,   \* the fields of that material when the calibration was called
    c_lights,      \* the argument *light_sources
    goal,          \* the goal colour, three 8-bit channels
    low,           \* the colour shown with the material black
    high,          \* the colour shown with the material white
    candidate,     \* the candidate colour of the search
    shown,         \* the colour shown with the candidate
    returned,      \* the material returned
    cpc            \* "idle" | "call" | "white" | "check" | "search" | "tried" |
                   \* "done" | "IlluminationRangeError"

VARIABLES
    \* the line intersections of letter_v.py
    ray_a,         \* the arguments of _get_ray_intersection: a point and a vector
    ray_b,
    seg_ab,        \* the arguments of _get_abcd_intersection: two points
    seg_cd,
    xsect,         \* the point returned, two fractions
    xpc            \* "idle" | "ray" | "abcd" | "done" | "ValueError"

VARIABLES
    \* the construction of a Material
    m_hex_color,   \* the arguments of Material.__init__
    m_ambient,
    m_diffuse,
    m_specular,
    m_self,        \* the Material constructed
    mpc            \* "idle" | "call" | "done" | "ZeroDivisionError"

VARIABLES
    \* uniform_shading_model and illuminate on a normal and on a multiple of it
    sh_normal,     \* the normal n
    sh_factor,     \* the scalar c > 0
    sh_material,   \* the material
    sh_light,      \* the light
    shade_n,       \* uniform_shading_model(n, material, light)
    shade_cn,      \* uniform_shading_model(c * n, material, light)
    lit_n,         \* illuminate(n, material, light)
    lit_cn,        \* illuminate(c * n, material, light)
    shpc           \* "idle" | "shade" | "shade_scaled" | "illuminate" |
                   \* "illuminate_scaled" | "done"

VARIABLES
    \* make_valid_polygons on one point list, and on its own result
    mv_pts,        \* the argument pts
    all_polygons,  \* the list returned
    all_again,     \* the list returned for the elements of all_polygons
    mvpc           \* "idle" | "call" | "again" | "done"

VARIABLES
    \* get_polygon_union on two overlapping squares, with the coordinates
    \* of the rings
    sq_pnt_lists,  \* the argument *pnt_lists, each polygon the squares it covers
    sq_negative,   \* the argument negative
    sq_i,          \* the loop index i
    sq_union,      \* the local union
    sq_nodes,      \* the vertices on the boundary of union
    sq_rings,      \* the list returned: lists of points
    sqpc           \* "idle" | "loop" | "done"

VARIABLES
    \* _new_diamond (diamond.py)
    dm_rad,        \* the argument rad
    dm_outer,      \* the local outer
    dm_inner,      \* the local inner
    dm_i,          \* the index of the running loop
    dm_bevels,     \* the local bevels
    dm_normals,    \* for each filled bevel, the points its normal is computed
                   \* from and the normal
    dmpc           \* "idle" | "append" | "fill" | "done"

VARIABLES
    \* the reference outlines (reference_paths.py)
    ref_datastring, \* the attribute d of a reference path
    ref_pts,        \* what _get_pts_from_datastring gave for it
    ref_first,      \* what start_from_first_lexigraphically_sorted_point gave
    ref_again,      \* what it gave for its own result
    rfpc            \* "idle" | "call" | "parsed" | "sorted" | "again"

dedupVars == <<values, useKey, keep_ixs, result, result2, dpc>>
unionVars == <<pnt_lists, negative, ui, union, uresult, rings, upc>>

bevelVars == <<bpts, bev, new_pts, new_pts2, bpc>>

illumVars == <<normal_vector, material, material0, light_sources, unit_normal,
               colors, sum_vector, hex, ipc>>

pathVars == <<path_lists, datastring, parsed, ppc>>

calibVars == <<c_normal, c_material, c_material0, c_lights, goal, low, high,
               candidate, shown, returned, cpc>>

xsectVars == <<ray_a, ray_b, seg_ab, seg_cd, xsect, xpc>>

materialVars == <<m_hex_color, m_ambient, m_diffuse, m_specular, m_self, mpc>>

shadeVars == <<sh_normal, sh_factor, sh_material, sh_light, shade_n, shade_cn,
               lit_n, lit_cn, shpc>>

repairVars == <<mv_pts, all_polygons, all_again, mvpc>>

squaresVars == <<sq_pnt_lists, sq_negative, sq_i, sq_union, sq_nodes, sq_rings, sqpc>>

diamondVars == <<dm_rad, dm_outer, dm_inner, dm_i, dm_bevels, dm_normals, dmpc>>

refVars == <<ref_datastring, ref_pts, ref_first, ref_again, rfpc>>

vars == <<dedupVars, unionVars, bevelVars, illumVars, pathVars, calibVars, xsectVars, materialVars, shadeVars, repairVars, squaresVars, diamondVars, refVars>>

---------------------------------------------------------------------------
(* Generic helpers.                                                        *)

\* Python's range(n) as a set.
Range(n) == 0 .. (n - 1)

\* Python's s[i] for a 0-based index into a TLA+ sequence.
At(s, i) == s[i + 1]

\* [f(i) for i in ixs] for an increasing sequence of 0-based indices.
Pick(s, ixs) == [k \in 1 .. Len(ixs) |-> At(s, ixs[k])]

\* The increasing sequence of the elements of a finite set of integers.
RECURSIVE SortedSeq(_)
SortedSeq(S) ==
    IF S = {} THEN <<>>
    ELSE LET m == CHOOSE x \in S : \A y \in S : x <= y
         IN  <<m>> \o SortedSeq(S \ {m})

---------------------------------------------------------------------------
(* _remove_identical_adjacent_values (glyphs.py)                           *)

\* bounds of the inputs
MaxLen == 4
NumVals == 4

Vals == Range(NumVals)

\* The key function of the tests, str.lower: values 2k and 2k+1 are the two
\* spellings ('apple', 'APPLE') of one key.
Lower(v) == v \div 2

\* keys = list(values) if key is None else [key(pt) for pt in values]
Keys(vals, withKey) ==
    [k \in 1 .. Len(vals) |-> IF withKey THEN Lower(vals[k]) ELSE vals[k]]

\* keys[1:] + keys[:1]
RotateLeft(s) == IF Len(s) = 0 THEN s ELSE Tail(s) \o <<Head(s)>>

\* A plausible slip: the comparison does not wrap around (zip(keys, keys[1:])
\* with the last index always kept).
KeepIxsNoWrap(vals, withKey) ==
    LET keys == Keys(vals, withKey)
    IN  SortedSeq({i \in Range(Len(vals)) :
                     i = Len(vals) - 1 \/ At(keys, i) # At(keys, i + 1)})

\* A plausible slip: the first value of each run is kept, not the last.
KeepIxsFirst(vals, withKey) ==
    LET keys == Keys(vals, withKey)
        prev == <<keys[Len(keys)]>> \o SubSeq(keys, 1, Len(keys) - 1)
    IN  SortedSeq({i \in Range(Len(vals)) : At(keys, i) # At(prev, i)})

\* A plausible slip: the comparison is inverted (x == y).
KeepIxsEqual(vals, withKey) ==
    LET keys == Keys(vals, withKey)
        next == RotateLeft(keys)
    IN  SortedSeq({i \in Range(Len(vals)) : At(keys, i) = At(next, i)})

\* keep_ixs = [i for i, (x, y) in enumerate(zip(keys, keys[1:] + keys[:1]))
\*             if x != y]
KeepIxs(vals, withKey) ==
    LET keys == Keys(vals, withKey)
        next == RotateLeft(keys)
    IN  SortedSeq({i \in Range(Len(vals)) : At(keys, i) # At(next, i)})

\* The local keep_ixs as the call leaves it (never computed for len < 2).
KeepIxsOf(vals, withKey) ==
    IF Len(vals) < 2 THEN <<>> ELSE KeepIxs(vals, withKey)

\* A plausible slip: with nothing kept the last value is returned
\* ([values[-1]]).
RemoveIdenticalAdjacentValuesLast(vals, withKey) ==
    IF Len(vals) < 2 THEN vals
    ELSE LET ixs == KeepIxs(vals, withKey)
         IN  IF Len(ixs) > 0 THEN Pick(vals, ixs) ELSE <<vals[Len(vals)]>>

\* def _remove_identical_adjacent_values(values, *, key=None)
RemoveIdenticalAdjacentValues(vals, withKey) ==
    IF Len(vals) < 2 THEN vals
    ELSE LET ixs == KeepIxs(vals, withKey)
         IN  IF Len(ixs) > 0 THEN Pick(vals, ixs) ELSE <<vals[1]>>

\* The sequences of length 0 .. n over S.
SeqsUpTo(S, n) == UNION {[1 .. k -> S] : k \in 0 .. n}

notDedup == <<unionVars, bevelVars, illumVars, pathVars, calibVars, xsectVars, materialVars, shadeVars, repairVars, squaresVars, diamondVars, refVars>>

IdleDedup ==
    /\ values = <<>>
    /\ useKey = FALSE
    /\ keep_ixs = <<>>
    /\ result = <<>>
    /\ result2 = <<>>
    /\ dpc = "idle"

InitDedupOnly ==
    /\ values \in SeqsUpTo(Vals, MaxLen)
    /\ useKey \in BOOLEAN
    /\ keep_ixs = <<>>
    /\ result = <<>>
    /\ result2 = <<>>
    /\ dpc = "call"

\* The call _remove_identical_adjacent_values(values, key=...).
CallRemove ==
    /\ dpc = "call"
    /\ keep_ixs' = KeepIxsOf(values, useKey)
    /\ result' = RemoveIdenticalAdjacentValues(values, useKey)
    /\ dpc' = "done"
    /\ UNCHANGED <<values, useKey, result2>>
    /\ UNCHANGED notDedup

\* The call repeated on its own result.
CallRemoveAgain ==
    /\ dpc = "done"
    /\ result2' = RemoveIdenticalAdjacentValues(result, useKey)
    /\ dpc' = "again"
    /\ UNCHANGED <<values, useKey, keep_ixs, result>>
    /\ UNCHANGED notDedup

NextDedup == CallRemove \/ CallRemoveAgain

---------------------------------------------------------------------------
(* Claims about _remove_identical_adjacent_values                          *)

KeyOf(v) == IF useKey THEN Lower(v) ELSE v

\* C4: whenever the returned list has more than one element, no element's
\* key equals the key of its cyclic successor, the pair (last, first)
\* included.
C4_NoCyclicAdjacentEqual ==
    (dpc # "call" /\ dpc # "idle" /\ Len(result) > 1) =>
        \A i \in 1 .. Len(result) :
            KeyOf(result[i]) # KeyOf(result[(i % Len(result)) + 1])

\* C4 witness: an input whose first and last keys are equal has been
\* reduced to a list of more than one element.
C4_Witness ==
    /\ dpc = "done"
    /\ Len(values) >= 3
    /\ KeyOf(values[1]) = KeyOf(values[Len(values)])
    /\ Len(result) > 1

\* The indices (0-based) of the cyclic arc from i forward to j.
Arc(i, j, n) == {(i + d) % n : d \in 0 .. ((j - i + n) % n)}

\* i and j lie in one maximal cyclic run of equal keys.
SameRun(keys, i, j) ==
    LET n == Len(keys)
    IN  \/ \A k \in Arc(i, j, n) : At(keys, k) = At(keys, i)
        \/ \A k \in Arc(j, i, n) : At(keys, k) = At(keys, i)

SomeAdjacentDiffer(keys) ==
    \E i \in Range(Len(keys)) : At(keys, i) # At(keys, (i + 1) % Len(keys))

\* C5: for an input with a pair of differing cyclically adjacent keys the
\* result lists, in index order, exactly one element of every maximal
\* cyclic run of equal keys, the last of the run in cyclic order; the
\* element that stands for a run wrapping around the end of the list comes
\* first in the result.
C5_LastOfEachRun ==
    LET keys == Keys(values, useKey)
        n == Len(values)
    IN  (dpc = "done" /\ n >= 2 /\ SomeAdjacentDiffer(keys)) =>
            /\ Len(keep_ixs) = Len(result)
            /\ \A k \in 1 .. Len(keep_ixs) :
                   /\ keep_ixs[k] \in Range(n)
                   /\ result[k] = At(values, keep_ixs[k])
                   \* the last of its run: the cyclic successor starts another run
                   /\ At(keys, keep_ixs[k]) # At(keys, (keep_ixs[k] + 1) % n)
            /\ \A k \in 1 .. Len(keep_ixs) - 1 : keep_ixs[k] < keep_ixs[k + 1]
            \* exactly one kept index in the run of every index
            /\ \A i \in Range(n) :
                   Cardinality({k \in 1 .. Len(keep_ixs) :
                                   SameRun(keys, i, keep_ixs[k])}) = 1
            \* a run that wraps around is represented by result[1]
            /\ (At(keys, 0) = At(keys, n - 1)) =>
                   SameRun(keys, 0, keep_ixs[1])

\* C5 witness: a run of two or more equal keys wraps around the end of the
\* list and another run of two or more lies inside it.
C5_Witness ==
    LET keys == Keys(values, useKey)
    IN  /\ dpc = "done"
        /\ useKey
        /\ Len(values) >= 4
        /\ At(keys, 0) = At(keys, Len(values) - 1)
        /\ At(values, 0) # At(values, Len(values) - 1)
        /\ \E i \in 1 .. Len(values) - 2 :
               At(keys, i) = At(keys, i + 1) /\ At(keys, i) # At(keys, 0)
        /\ Len(result) = 2

\* Every value has the key of its cyclic successor.
AllSameKey ==
    \A i \in 1 .. Len(values) :
        KeyOf(values[i]) = KeyOf(values[(i % Len(values)) + 1])

\* C21: for an input of two or more values whose keys are all the same the
\* call returns the one-element list [values[0]], and for no non-empty
\* input does it return an empty list.
C21_AllIdentical ==
    dpc = "done" =>
        /\ (Len(values) >= 2 /\ AllSameKey) => result = <<values[1]>>
        /\ Len(values) > 0 => Len(result) > 0

\* C21 witness: three or more values with one key, the first and the last
\* of them different values, have been reduced to the first.
C21_Witness ==
    /\ dpc = "done"
    /\ Len(values) >= 3
    /\ AllSameKey
    /\ values[1] # values[Len(values)]
    /\ result = <<values[1]>>

\* C30: the call repeated on its own result returns that result.
C30_Idempotent ==
    dpc = "again" => result2 = result

\* C30 witness: the first call removed values from inside the list and from
\* a run that wraps around its end, and the second call has returned.
C30_Witness ==
    /\ dpc = "again"
    /\ Len(values) >= 4
    /\ KeyOf(values[1]) = KeyOf(values[Len(values)])
    /\ Len(result) >= 2
    /\ Len(result) < Len(values) - 1
    /\ result2 = result

---------------------------------------------------------------------------
(* get_polygon_union (glyphs.py)                                           *)

\* bound of the inputs
MaxPolys == 3

\* The plane is a 3 x 3 board of unit squares, cell 3 * row + col; a region
\* is the set of the squares it covers.
Cells == Range(9)

\* The regions of the polygons handed to get_polygon_union: the whole
\* board, its middle square, its left column, its top row, its two right
\* columns and an L along its left and bottom sides.
Shapes ==
    { Cells, {4}, {0, 3, 6}, {0, 1, 2}, {1, 2, 4, 5, 7, 8}, {0, 3, 6, 7, 8} }

\* A plausible slip: a flagged polygon is exchanged with the union, not
\* taken out of it (the symmetric difference).
StepUnionSymmetric(u, poly, neg) ==
    IF neg THEN (u \ poly) \cup (poly \ u) ELSE u \cup poly

\* A plausible slip: the operands of the difference are swapped.
StepUnionSwapped(u, poly, neg) ==
    IF neg THEN poly \ u ELSE u \cup poly

\* The body of the loop:
\*     if i in negative: union = union - make_valid(Polygon(pts))
\*     else: union = unary_union([union, make_valid(Polygon(pts))])
StepUnion(u, poly, neg) ==
    IF neg THEN u \ poly ELSE u \cup poly

\* The squares that share a side with square c.
Beside(c) ==
    {d \in Cells : \/ d = c - 3
                   \/ d = c + 3
                   \/ d \div 3 = c \div 3 /\ (d = c - 1 \/ d = c + 1)}

\* The squares of S joined through sides to the squares of seen.
RECURSIVE Flood(_, _)
Flood(S, seen) ==
    LET more == {d \in S \ seen : \E c \in seen : d \in Beside(c)}
    IN  IF more = {} THEN seen ELSE Flood(S, seen \cup more)

\* union.geoms: the polygons of a region, its parts joined through sides
PolygonsOf(region) == {Flood(region, {c}) : c \in region}

\* The squares on the rim of the board.
Rim == {c \in Cells : c \div 3 \in {0, 2} \/ c % 3 \in {0, 2}}

\* The squares outside a polygon: those joined to the rim around it.
OutsideOf(polygon) ==
    LET open == Cells \ polygon IN Flood(open, open \cap Rim)

\* polygon.exterior: the outer ring, which encloses the polygon and its voids
ExteriorOf(polygon) == Cells \ OutsideOf(polygon)

\* polygon.interiors: one ring around each void of the polygon
InteriorsOf(polygon) == PolygonsOf(ExteriorOf(polygon) \ polygon)

\* The regions of a set as a list, by their lowest squares.
RECURSIVE InOrder(_)
InOrder(regions) ==
    IF regions = {} THEN <<>>
    ELSE LET Least(r) == CHOOSE c \in r : \A d \in r : c <= d
             first == CHOOSE r \in regions : \A q \in regions : Least(r) <= Least(q)
         IN  <<first>> \o InOrder(regions \ {first})

\* A plausible slip: the outer ring alone.
GetPolyCoordsExteriorOnly(polygon) == <<ExteriorOf(polygon)>>

\* _get_poly_coords(polygon): the exterior ring, then the interior rings
GetPolyCoords(polygon) ==
    <<ExteriorOf(polygon)>> \o InOrder(InteriorsOf(polygon))

\* The lists of the elements of a finite set, each element once.
Orderings(S) ==
    {f \in [1 .. Cardinality(S) -> S] : \A i, j \in DOMAIN f : f[i] = f[j] => i = j}

\* sum(lists, []): the lists one after the other
RECURSIVE Flatten(_)
Flatten(lists) ==
    IF lists = <<>> THEN <<>> ELSE Head(lists) \o Flatten(Tail(lists))

notUnion == <<dedupVars, bevelVars, illumVars, pathVars, calibVars, xsectVars, materialVars, shadeVars, repairVars, squaresVars, diamondVars, refVars>>

IdleUnion ==
    /\ pnt_lists = <<>>
    /\ negative = {}
    /\ ui = 0
    /\ union = {}
    /\ uresult = {}
    /\ rings = <<>>
    /\ upc = "idle"

\* negative = negative or set(); union = unary_union([])
InitUnionOnly ==
    /\ pnt_lists \in SeqsUpTo(Shapes, MaxPolys)
    /\ negative \in SUBSET Range(Len(pnt_lists))
    /\ ui = 0
    /\ union = {}
    /\ uresult = {}
    /\ rings = <<>>
    /\ upc = "loop"

\* One iteration of `for i, pts in enumerate(pnt_lists)`.
UnionLoop ==
    /\ upc = "loop"
    /\ ui < Len(pnt_lists)
    /\ union' = StepUnion(union, At(pnt_lists, ui), ui \in negative)
    /\ ui' = ui + 1
    /\ UNCHANGED <<pnt_lists, negative, uresult, rings, upc>>
    /\ UNCHANGED notUnion

\* The loop is over: the rings of the polygons of union are returned, the
\* polygons in the order shapely keeps them in union.geoms.
UnionReturn ==
    /\ upc = "loop"
    /\ ui = Len(pnt_lists)
    /\ uresult' = union
    /\ \E polygons \in Orderings(PolygonsOf(union)) :
           rings' = Flatten([k \in 1 .. Len(polygons) |-> GetPolyCoords(polygons[k])])
    /\ upc' = "done"
    /\ UNCHANGED <<pnt_lists, negative, ui, union>>
    /\ UNCHANGED notUnion

NextUnion == UnionLoop \/ UnionReturn

---------------------------------------------------------------------------
(* Claims about get_polygon_union                                          *)

Flagged == {i \in Range(Len(pnt_lists)) : i \in negative}
Unflagged == Range(Len(pnt_lists)) \ negative

\* C1 as stated: the returned region is the union of the polygons that are
\* not flagged minus every flagged polygon, wherever the flagged polygons
\* stand in the argument list.
C1_OrderIndependent ==
    upc = "done" =>
        uresult = UNION {At(pnt_lists, i) : i \in Unflagged}
                    \ UNION {At(pnt_lists, j) : j \in Flagged}

\* C1 amended: the polygons are folded in argument order, so a flagged
\* polygon removes its area only from the polygons listed before it: a
\* square is in the returned region exactly when a polygon that is not
\* flagged covers it and no flagged polygon listed after that one does.
C1_InArgumentOrder ==
    upc = "done" =>
        uresult = {c \in Cells :
                     \E i \in Unflagged :
                         /\ c \in At(pnt_lists, i)
                         /\ \A j \in Flagged : j > i => c \notin At(pnt_lists, j)}

\* C1 witness: write_vim_logo's pattern, a flagged mask followed by a
\* polygon that overlaps it, has been folded and the overlap is returned.
C1_Witness ==
    /\ upc = "done"
    /\ Len(pnt_lists) = 3
    /\ negative = {1}
    /\ At(pnt_lists, 1) \cap At(pnt_lists, 2) # {}
    /\ At(pnt_lists, 0) \cap At(pnt_lists, 1) # {}
    /\ uresult \cap At(pnt_lists, 1) = At(pnt_lists, 1) \cap At(pnt_lists, 2)
    /\ uresult \cap At(pnt_lists, 1) # {}

\* The outer rings of the polygons of the region returned, and the rings
\* around their voids.
OuterRings == {ExteriorOf(polygon) : polygon \in PolygonsOf(uresult)}
HoleRings == UNION {InteriorsOf(polygon) : polygon \in PolygonsOf(uresult)}

\* C14 as stated: every list returned by get_polygon_union is the exterior
\* ring of one polygon of the resulting region, and no ring around a void of
\* the region is in the list.
C14_ExteriorRingsOnly ==
    upc = "done" =>
        \A k \in 1 .. Len(rings) : rings[k] \in OuterRings /\ rings[k] \notin HoleRings

\* C14 amended: every list returned by get_polygon_union is a ring of one
\* polygon of the resulting region, its exterior ring or the ring around one
\* of its voids: each exterior ring is in the list once, and when the region
\* has an interior void the ring describing the hole is in the list too,
\* after the exterior ring of its polygon.
C14_ExteriorAndHoleRings ==
    upc = "done" =>
        /\ \A k \in 1 .. Len(rings) : rings[k] \in OuterRings \cup HoleRings
        /\ \A r \in OuterRings \cup HoleRings :
               Cardinality({k \in 1 .. Len(rings) : rings[k] = r}) = 1
        /\ \A polygon \in PolygonsOf(uresult) :
               \A hole \in InteriorsOf(polygon) :
                   \E j, k \in 1 .. Len(rings) :
                       j < k /\ rings[j] = ExteriorOf(polygon) /\ rings[k] = hole

\* C14 witness: a polygon has been cut out of the middle of another, and
\* the list returned holds the outer ring and the ring around the void.
C14_Witness ==
    /\ upc = "done"
    /\ negative # {}
    /\ HoleRings # {}
    /\ Len(rings) = 2
    /\ rings[1] \in OuterRings
    /\ rings[2] \in HoleRings

---------------------------------------------------------------------------
(* Exact arithmetic for the bevels.  The outlines that are bevelled have   *)
(* edges along the axes and the diagonals, so every coordinate, offset and *)
(* product is a number a + b * sqrt(2) with integers a and b, written      *)
(* <<a, b>>.  Coordinates are kept in halves: the model coordinate c       *)
(* stands for the length c / 2.                                            *)

ISgn(n) == IF n > 0 THEN 1 ELSE IF n < 0 THEN -1 ELSE 0

ZAdd(p, q) == <<p[1] + q[1], p[2] + q[2]>>
ZSub(p, q) == <<p[1] - q[1], p[2] - q[2]>>
ZNeg(p) == <<-p[1], -p[2]>>
ZMul(p, q) == <<p[1] * q[1] + 2 * p[2] * q[2], p[1] * q[2] + p[2] * q[1]>>

\* The sign of a + b * sqrt(2).
ZSgn(p) ==
    LET a == p[1]
        b == p[2]
    IN  IF a >= 0 /\ b >= 0 THEN (IF a = 0 /\ b = 0 THEN 0 ELSE 1)
        ELSE IF a <= 0 /\ b <= 0 THEN -1
        ELSE IF a > 0 THEN ISgn(a * a - 2 * b * b)
        ELSE ISgn(2 * b * b - a * a)

ZAbs(p) == IF ZSgn(p) < 0 THEN ZNeg(p) ELSE p
ZZero == <<0, 0>>

\* vec2.vadd, vec2.vsub, and the dot product and determinant behind
\* vec2.get_signed_angle
VAdd(u, v) == <<ZAdd(u[1], v[1]), ZAdd(u[2], v[2])>>
VSub(u, v) == <<ZSub(u[1], v[1]), ZSub(u[2], v[2])>>
Dot(u, v) == ZAdd(ZMul(u[1], v[1]), ZMul(u[2], v[2]))
Det(u, v) == ZSub(ZMul(u[1], v[2]), ZMul(u[2], v[1]))

\* The point (x, y) with integer coordinates.
Pt(x, y) == << <<2 * x, 0>>, <<2 * y, 0>> >>

---------------------------------------------------------------------------
(* _bevel_90_turns (letter_v.py)                                           *)

\* bounds of the inputs
MaxPts == 4
MaxBev == 4

\* A vector is along an axis or a diagonal.
IsAxial(v) ==
    /\ v # <<ZZero, ZZero>>
    /\ (v[1] = ZZero \/ v[2] = ZZero \/ ZAbs(v[1]) = ZAbs(v[2]))

\* A plausible slip: the vector is scaled by the norm without being divided
\* by its own length.
SetNormUnscaled(v, norm) ==
    [raised |-> v = <<ZZero, ZZero>>,
     vec |-> << ZMul(v[1], <<norm, 0>>), ZMul(v[2], <<norm, 0>>) >>]

\* The integer square root.
ISqrt(n) == CHOOSE r \in 0 .. 15000 : r * r <= n /\ n < (r + 1) * (r + 1)

\* The components of a vector as two integers of at most five digits, in
\* the proportion of the components (sqrt(2) taken as 1393 / 985).
Shortened(v) ==
    LET x == 985 * v[1][1] + 1393 * v[1][2]
        y == 985 * v[2][1] + 1393 * v[2][2]
        ax == IF x < 0 THEN -x ELSE x
        ay == IF y < 0 THEN -y ELSE y
        k == ((IF ax > ay THEN ax ELSE ay) \div 10000) + 1
    IN  <<ISgn(x) * (ax \div k), ISgn(y) * (ay \div k)>>

\* vec2.set_norm(vec, norm): vec scaled to the length norm; a ValueError
\* for the zero vector.  Along an axis the result is (+-norm, 0); along a
\* diagonal it is (+-norm / sqrt(2), +-norm / sqrt(2)); in any other
\* direction the components are irrational and, as in the floats of the
\* code, rounded: here to the half units of the model.
SetNorm(v, norm) ==
    IF v = <<ZZero, ZZero>> THEN [raised |-> TRUE, vec |-> v]
    ELSE IF v[1] = ZZero \/ v[2] = ZZero
         THEN [raised |-> FALSE,
               vec |-> << <<2 * norm * ZSgn(v[1]), 0>>,
                          <<2 * norm * ZSgn(v[2]), 0>> >>]
         ELSE IF ZAbs(v[1]) = ZAbs(v[2])
         THEN [raised |-> FALSE,
               vec |-> << <<0, norm * ZSgn(v[1])>>,
                          <<0, norm * ZSgn(v[2])>> >>]
         ELSE LET w == Shortened(v)
                  len == ISqrt(w[1] * w[1] + w[2] * w[2])
              IN  [raised |-> FALSE,
                   vec |-> << <<(2 * norm * w[1]) \div len, 0>>,
                              <<(2 * norm * w[2]) \div len, 0>> >>]

\* A plausible slip: the arguments of the angle are swapped, which bevels
\* the left turns.
GetSignedAngleSwapped(u, v) ==
    LET d == ZSgn(Det(v, u))
        t == ZSgn(Dot(v, u))
    IN  d * (90 - 45 * t) + (IF d = 0 /\ t < 0 THEN 180 ELSE 0)

\* vec2.get_signed_angle(u, v) = atan2(det(u, v), dot(u, v)), in degrees.
\* Both vectors lie along an axis or a diagonal, so the angle is a multiple
\* of 45 degrees that the signs of det and dot decide.
GetSignedAngle(u, v) ==
    LET d == ZSgn(Det(u, v))
        t == ZSgn(Dot(u, v))
    IN  d * (90 - 45 * t) + (IF d = 0 /\ t < 0 THEN 180 ELSE 0)

\* A plausible slip: every right-hand turn is taken for a 90-degree one.
IsCloseHalfPiLoose(angle) == angle > 0

\* math.isclose(angle, math.pi / 2)
IsCloseHalfPi(angle) == angle = 90

\* A plausible slip: the two bevel points are appended in the other order.
BevelVertexSwapped(a, b, c, size) ==
    LET vec_ba == SetNorm(VSub(a, b), size)
        vec_cb == SetNorm(VSub(b, c), size)
    IN  IF vec_ba.raised \/ vec_cb.raised THEN [raised |-> TRUE, pts |-> <<>>]
        ELSE IF IsCloseHalfPi(GetSignedAngle(vec_ba.vec, vec_cb.vec))
             THEN [raised |-> FALSE,
                   pts |-> <<VSub(b, vec_cb.vec), VAdd(b, vec_ba.vec)>>]
             ELSE [raised |-> FALSE, pts |-> <<b>>]

\* The points appended for the vertex b with neighbours a and c, or the
\* ValueError of set_norm:
\*     vec_ba = vec2.set_norm(vec2.vsub(a, b), SML_BEV)
\*     vec_cb = vec2.set_norm(vec2.vsub(b, c), SML_BEV)
\*     angle = vec2.get_signed_angle(vec_ba, vec_cb)
\*     if math.isclose(angle, math.pi / 2): two points, else b
BevelVertex(a, b, c, size) ==
    LET vec_ba == SetNorm(VSub(a, b), size)
        vec_cb == SetNorm(VSub(b, c), size)
    IN  IF vec_ba.raised \/ vec_cb.raised THEN [raised |-> TRUE, pts |-> <<>>]
        ELSE IF IsCloseHalfPi(GetSignedAngle(vec_ba.vec, vec_cb.vec))
             THEN [raised |-> FALSE,
                   pts |-> <<VAdd(b, vec_ba.vec), VSub(b, vec_cb.vec)>>]
             ELSE [raised |-> FALSE, pts |-> <<b>>]

\* zip(pts[-1:] + pts[:-1], pts, pts[1:] + pts[:1]), 0-based index i
PrevPt(pts, i) == At(pts, (i + Len(pts) - 1) % Len(pts))
NextPt(pts, i) == At(pts, (i + 1) % Len(pts))

\* The loop of _bevel_90_turns from vertex i on.
RECURSIVE BevelFrom(_, _, _)
BevelFrom(pts, i, size) ==
    IF i >= Len(pts) THEN [raised |-> FALSE, pts |-> <<>>]
    ELSE LET one == BevelVertex(PrevPt(pts, i), At(pts, i), NextPt(pts, i), size)
             rest == BevelFrom(pts, i + 1, size)
         IN  IF one.raised \/ rest.raised THEN [raised |-> TRUE, pts |-> <<>>]
             ELSE [raised |-> FALSE, pts |-> one.pts \o rest.pts]

\* def _bevel_90_turns(pts), with the module's SML_BEV as `size`
Bevel90Turns(pts, size) == BevelFrom(pts, 0, size)

\* diamond._get_diamond_points(rad)
GetDiamondPoints(rad) == <<Pt(rad, 0), Pt(0, rad), Pt(-rad, 0), Pt(0, -rad)>>

\* The letter V (vimlogo/letter_v.py) is measured in the unit
\* (sqrt(2) - 1) / 96: SML_BEV = LRG_BEV * sin(pi / 8) / sin(3 pi / 8) =
\* (546 / 96) * (sqrt(2) - 1) is 546 units long, and the point
\* (x / 96, y / 96) has the coordinates x * (1 + sqrt(2)), y * (1 + sqrt(2)).
SmlBev == 546

VPt(x, y) == << <<2 * x, 2 * x>>, <<2 * y, 2 * y>> >>

\* _get_letter_v_rough_outline(): the points a .. o, from the measurements
\* of the module in 96ths (INNER_AB = 8523, INNER_BC = 1638, OUTER_BC =
\* 2730, INNER_CD = 1818, INNER_FG = 1092, LRG_BEV = 546, INNER_Hx = 14149,
\* INNER_Jx = 22588, INNER_Lx = 3539, INNER_Ly = 20957)
GetLetterVRoughOutline ==
    LET pnt_fx == 14149 + 1638
        pnt_dx == 8523 - 1818
    IN  << VPt(0, 0), VPt(8523, 0), VPt(8523, 1638), VPt(pnt_dx, 1638),
           VPt(pnt_dx, 1638 + (pnt_fx - pnt_dx + 2 * 546)),
           VPt(pnt_fx, 2730), VPt(pnt_fx, 1638), VPt(14149, 1638),
           VPt(14149, 0), VPt(22588, 0), VPt(22588, 1092), VPt(3539, 20957),
           VPt(1638, 20957), VPt(1638, 1638), VPt(0, 1638) >>

\* The corners of the outlines: a 3 x 3 lattice of pitch 4.
Lattice == {Pt(4 * x, 4 * y) : x \in 0 .. 2, y \in 0 .. 2}

\* An outline whose edges all run along an axis or a diagonal.
IsOutline(pts) ==
    \A i \in Range(Len(pts)) : IsAxial(VSub(NextPt(pts, i), At(pts, i)))

Outlines ==
    {pts \in UNION {[1 .. n -> Lattice] : n \in 3 .. MaxPts} : IsOutline(pts)}
        \cup {GetDiamondPoints(50)}

notBevel == <<dedupVars, unionVars, illumVars, pathVars, calibVars, xsectVars, materialVars, shadeVars, repairVars, squaresVars, diamondVars, refVars>>

NoPts == [raised |-> FALSE, pts |-> <<>>]

IdleBevel ==
    /\ bpts = <<>>
    /\ bev = 0
    /\ new_pts = NoPts
    /\ new_pts2 = NoPts
    /\ bpc = "idle"

InitBevelOnly ==
    /\ \/ bpts \in Outlines /\ bev \in 1 .. MaxBev
       \/ bpts = GetLetterVRoughOutline /\ bev = SmlBev
    /\ new_pts = NoPts
    /\ new_pts2 = NoPts
    /\ bpc = "call"

\* The call _bevel_90_turns(pts).
CallBevel ==
    /\ bpc = "call"
    /\ new_pts' = Bevel90Turns(bpts, bev)
    /\ bpc' = "done"
    /\ UNCHANGED <<bpts, bev, new_pts2>>
    /\ UNCHANGED notBevel

\* The call repeated on the outline it returned.
CallBevelAgain ==
    /\ bpc = "done"
    /\ ~new_pts.raised
    /\ new_pts2' = Bevel90Turns(new_pts.pts, bev)
    /\ bpc' = "again"
    /\ UNCHANGED <<bpts, bev, new_pts>>
    /\ UNCHANGED notBevel

NextBevel == CallBevel \/ CallBevelAgain

---------------------------------------------------------------------------
(* Claims about _bevel_90_turns                                            *)

\* The edge into vertex i and the edge out of it, in the direction of travel.
EdgeIn(pts, i) == VSub(At(pts, i), PrevPt(pts, i))
EdgeOut(pts, i) == VSub(NextPt(pts, i), At(pts, i))

\* The turn at vertex i is a right angle: two edges of non-zero length that
\* are perpendicular.
IsRightAngleAt(pts, i) ==
    /\ EdgeIn(pts, i) # <<ZZero, ZZero>>
    /\ EdgeOut(pts, i) # <<ZZero, ZZero>>
    /\ Dot(EdgeIn(pts, i), EdgeOut(pts, i)) = ZZero

\* A right angle turned to the right of the direction of travel (the
\* 90-degree right turn of a clockwise outline, y pointing down).
IsRightHandAt(pts, i) ==
    /\ IsRightAngleAt(pts, i)
    /\ ZSgn(Det(EdgeIn(pts, i), EdgeOut(pts, i))) > 0

\* p lies at the distance size from b on the ray from b towards a.
OnRayAt(p, b, a, size) ==
    /\ Det(VSub(p, b), VSub(a, b)) = ZZero
    /\ ZSgn(Dot(VSub(p, b), VSub(a, b))) > 0
    /\ Dot(VSub(p, b), VSub(p, b)) = <<4 * size * size, 0>>

\* out is pts with exactly the vertices that satisfy Cut replaced by two
\* points, the first at the distance size towards the predecessor and the
\* second at the distance size towards the successor, and every other
\* vertex kept, in order.
IsBevelOf(out, pts, size, Cut(_, _)) ==
    LET n == Len(pts)
        pos(i) == i + Cardinality({j \in Range(i) : Cut(pts, j)})
    IN  /\ Len(out) = pos(n)
        /\ \A i \in Range(n) :
               IF Cut(pts, i)
               THEN /\ OnRayAt(At(out, pos(i)), At(pts, i), PrevPt(pts, i), size)
                    /\ OnRayAt(At(out, pos(i) + 1), At(pts, i), NextPt(pts, i), size)
               ELSE At(out, pos(i)) = At(pts, i)

\* C6 as stated: every vertex whose turn is a right angle is replaced by
\* its two bevel points and every other vertex is kept.
C6_EveryRightAngle ==
    bpc = "done" =>
        /\ ~new_pts.raised
        /\ IsBevelOf(new_pts.pts, bpts, bev, IsRightAngleAt)

\* C6 amended: the vertices replaced are those whose right angle turns to
\* the right (signed angle +pi/2 from a - b to b - c); a right angle that
\* turns to the left is kept like any other vertex.
C6_RightHandTurnsOnly ==
    bpc = "done" =>
        /\ ~new_pts.raised
        /\ IsBevelOf(new_pts.pts, bpts, bev, IsRightHandAt)

\* C6 witness: an outline with a right-hand right angle, a left-hand right
\* angle and a vertex that is no right angle has been bevelled.
C6_Witness ==
    /\ bpc = "done"
    /\ \E i \in Range(Len(bpts)) : IsRightHandAt(bpts, i)
    /\ \E i \in Range(Len(bpts)) :
           IsRightAngleAt(bpts, i) /\ ~IsRightHandAt(bpts, i)
    /\ \E i \in Range(Len(bpts)) : ~IsRightAngleAt(bpts, i)
    /\ Len(new_pts.pts) > Len(bpts)

NoZeroEdge(pts) ==
    \A i \in Range(Len(pts)) : EdgeOut(pts, i) # <<ZZero, ZZero>>

\* The two points that replace a bevelled vertex i of pts (0-based
\* positions in the result).
CutPos(pts, i) == i + Cardinality({j \in Range(i) : IsRightHandAt(pts, j)})

\* Neither of the two vertices that replace a bevelled vertex is a
\* right-angle turn.
NoNewRightAngle ==
    (bpc = "done" \/ bpc = "again") =>
        \A i \in Range(Len(bpts)) :
            IsRightHandAt(bpts, i) =>
                /\ ~IsRightAngleAt(new_pts.pts, CutPos(bpts, i))
                /\ ~IsRightAngleAt(new_pts.pts, CutPos(bpts, i) + 1)

NoRightAngle(pts) == \A j \in Range(Len(pts)) : ~IsRightAngleAt(pts, j)

\* C8 as stated: for any outline P, when Q = bevel(P) has no right-angle
\* turn, bevelling Q again returns Q; and neither of the two vertices that
\* replace a bevelled vertex is a right-angle turn.
C8_AsStated ==
    /\ (bpc = "again" /\ NoRightAngle(new_pts.pts)) => new_pts2 = new_pts
    /\ NoNewRightAngle

\* C8 amended: the same, for a Q that has no two identical adjacent points
\* (with an edge of length zero the second call raises ValueError).
C8_BevelTwice ==
    /\ (bpc = "again" /\ NoZeroEdge(new_pts.pts) /\ NoRightAngle(new_pts.pts))
        => new_pts2 = new_pts
    /\ NoNewRightAngle

\* C8 witness: an outline with a bevelled corner has given an outline
\* without a right angle, which the second call returned as it was.
C8_Witness ==
    /\ bpc = "again"
    /\ \E i \in Range(Len(bpts)) : IsRightHandAt(bpts, i)
    /\ NoZeroEdge(new_pts.pts)
    /\ NoRightAngle(new_pts.pts)
    /\ Len(new_pts.pts) > Len(bpts)
    /\ new_pts2 = new_pts

\* The vertices a, b, c, h, i, j, m and o of the letter V (0-based).
BevelledOfV == {0, 1, 2, 7, 8, 9, 12, 14}

\* The position in the bevelled outline of the first point that stands for
\* vertex i of the letter V.
PosInV(i) == i + Cardinality({j \in BevelledOfV : j < i})

\* C23: _bevel_90_turns applied to the 15 points a .. o of the letter V
\* returns 23 points: each of a, b, c, h, i, j, m and o is replaced by two
\* points at the distance SML_BEV from it, the first on the edge to the
\* vertex before it and the second on the edge to the vertex after it, and
\* d, e, f, g, k, l and n are passed through; the first point of the result
\* is the bevel point of a on its edge towards o.
C23_LetterVBevels ==
    (bpc = "done" /\ bpts = GetLetterVRoughOutline) =>
        /\ ~new_pts.raised
        /\ Len(new_pts.pts) = 23
        /\ \A i \in Range(15) :
               IF i \in BevelledOfV
               THEN /\ OnRayAt(At(new_pts.pts, PosInV(i)), At(bpts, i),
                               PrevPt(bpts, i), SmlBev)
                    /\ OnRayAt(At(new_pts.pts, PosInV(i) + 1), At(bpts, i),
                               NextPt(bpts, i), SmlBev)
               ELSE At(new_pts.pts, PosInV(i)) = At(bpts, i)
        /\ OnRayAt(At(new_pts.pts, 0), At(bpts, 0), At(bpts, 14), SmlBev)

\* C23 witness: the letter V has been bevelled, and point k, where the
\* vertical edge meets the slanted one, has been passed through.
C23_Witness ==
    /\ bpc = "done"
    /\ bpts = GetLetterVRoughOutline
    /\ Len(new_pts.pts) = 23
    /\ At(new_pts.pts, 16) = At(bpts, 10)

---------------------------------------------------------------------------
(* Exact arithmetic for the floats of illumination.py: a number is the     *)
(* fraction <<n, d>> in lowest terms with d > 0.                           *)

RECURSIVE GCD(_, _)
GCD(a, b) == IF b = 0 THEN a ELSE GCD(b, a % b)

IAbs(n) == IF n < 0 THEN -n ELSE n

Q(n, d) == LET g == GCD(IAbs(n), d) IN <<n \div g, d \div g>>

QInt(n) == <<n, 1>>

QAdd(p, q) ==
    LET g == GCD(p[2], q[2])
        l == (p[2] \div g) * q[2]
    IN  Q(p[1] * (l \div p[2]) + q[1] * (l \div q[2]), l)

QNeg(p) == <<-p[1], p[2]>>

QSub(p, q) == QAdd(p, QNeg(q))

QMul(p, q) ==
    LET g1 == GCD(IAbs(p[1]), q[2])
        g2 == GCD(IAbs(q[1]), p[2])
    IN  Q((p[1] \div g1) * (q[1] \div g2), (p[2] \div g2) * (q[2] \div g1))

\* p / n for an integer n > 0
QDivInt(p, n) == QMul(p, <<1, n>>)

\* max(0, p)
QMax0(p) == IF p[1] < 0 THEN QInt(0) ELSE p

\* min(max_val, max(min_val, p)) with min_val = 0 and max_val = 1
QClamp01(p) == IF p[1] < 0 THEN QInt(0) ELSE IF p[1] > p[2] THEN QInt(1) ELSE p

\* p ** e for the integer exponent e >= 0
RECURSIVE QPow(_, _)
QPow(p, e) == IF e = 0 THEN QInt(1) ELSE QMul(p, QPow(p, e - 1))

---------------------------------------------------------------------------
(* vec3.py                                                                 *)

\* math.sqrt of the sum of squares; the vectors of the model have a whole
\* magnitude
GetMagnitude(v) ==
    LET s == v[1] * v[1] + v[2] * v[2] + v[3] * v[3]
    IN  CHOOSE m \in 0 .. s : m * m = s

\* A plausible slip: the vector is returned with the magnitude it has.
NormalizeUnscaled(v) ==
    IF GetMagnitude(v) = 0 THEN [raised |-> TRUE, vec |-> <<>>]
    ELSE [raised |-> FALSE, vec |-> <<QInt(v[1]), QInt(v[2]), QInt(v[3])>>]

\* vec3.normalize: a ValueError when the magnitude is 0
Normalize(v) ==
    LET magnitude == GetMagnitude(v)
    IN  IF magnitude = 0 THEN [raised |-> TRUE, vec |-> <<>>]
        ELSE [raised |-> FALSE,
              vec |-> <<Q(v[1], magnitude), Q(v[2], magnitude), Q(v[3], magnitude)>>]

Vec3Multiply(a, b) == <<QMul(a[1], b[1]), QMul(a[2], b[2]), QMul(a[3], b[3])>>

Vec3Scale(v, scalar) == <<QMul(v[1], scalar), QMul(v[2], scalar), QMul(v[3], scalar)>>

Vec3Subtract(a, b) == <<QSub(a[1], b[1]), QSub(a[2], b[2]), QSub(a[3], b[3])>>

Vec3Add(a, b) == <<QAdd(a[1], b[1]), QAdd(a[2], b[2]), QAdd(a[3], b[3])>>

Vec3Zero == <<QInt(0), QInt(0), QInt(0)>>

\* vec3.vsum(*vectors)
RECURSIVE Vec3VSum(_)
Vec3VSum(vectors) ==
    IF vectors = <<>> THEN Vec3Zero
    ELSE Vec3Add(Head(vectors), Vec3VSum(Tail(vectors)))

\* vec3.dot
Vec3Dot(a, b) ==
    LET m == Vec3Multiply(a, b) IN QAdd(m[1], QAdd(m[2], m[3]))

\* A plausible slip: the vector is returned as it is.
Vec3ClampNone(v) == v

\* vec3.clamp
Vec3Clamp(v) == <<QClamp01(v[1]), QClamp01(v[2]), QClamp01(v[3])>>

---------------------------------------------------------------------------
(* illumination.py                                                         *)

\* bound of the inputs
MaxLights == 2

\* basic_colormath.float_to_8bit_int(x * 255) for an intensity in [0, 1]:
\* int(x * (2**32 - 1)) >> 24, the 256 equal bins of [0, 1]
FloatTo8BitInt(p) ==
    IF p[1] = 0 THEN 0
    ELSE IF (256 * p[1]) % p[2] = 0 THEN (256 * p[1]) \div p[2] - 1
         ELSE (256 * p[1]) \div p[2]

\* _intensity_to_rgb
IntensityToRgb(color) ==
    <<FloatTo8BitInt(color[1]), FloatTo8BitInt(color[2]), FloatTo8BitInt(color[3])>>

\* _rgb_to_intensity
RgbToIntensity(rgb) == <<Q(rgb[1], 255), Q(rgb[2], 255), Q(rgb[3], 255)>>

\* basic_colormath.rgb_to_hex: two hexadecimal digits for each channel
RgbToHex(rgb) ==
    <<rgb[1] \div 16, rgb[1] % 16, rgb[2] \div 16, rgb[2] % 16,
      rgb[3] \div 16, rgb[3] % 16>>

HexToRgbReversed(hex_str) ==
    <<16 * hex_str[5] + hex_str[6], 16 * hex_str[3] + hex_str[4],
      16 * hex_str[1] + hex_str[2]>>

\* basic_colormath.hex_to_rgb
HexToRgb(hex_str) ==
    <<16 * hex_str[1] + hex_str[2], 16 * hex_str[3] + hex_str[4],
      16 * hex_str[5] + hex_str[6]>>

\* _intensity_to_hex
IntensityToHex(color) == RgbToHex(IntensityToRgb(color))

\* _hex_to_intensity
HexToIntensity(hex_str) == RgbToIntensity(HexToRgb(hex_str))

\* LightSource.__init__(hex_color, direction)
LightSource(hex_color, direction) ==
    [color |-> HexToIntensity(hex_color), direction |-> Normalize(direction).vec]

\* A plausible slip: the weights are stored as they are given.
MaterialUnscaled(hex_color, ambient, diffuse, specular) ==
    [color |-> HexToIntensity(hex_color),
     ambient |-> QInt(ambient),
     diffuse |-> QInt(diffuse),
     specular |-> QInt(specular),
     shine |-> 1]

\* Material.__init__(hex_color, ambient, diffuse, specular), the weights
\* given as whole numbers
Material(hex_color, ambient, diffuse, specular) ==
    LET sum_illumination == ambient + diffuse + specular
    IN  [color |-> HexToIntensity(hex_color),
         ambient |-> Q(ambient, sum_illumination),
         diffuse |-> Q(diffuse, sum_illumination),
         specular |-> Q(specular, sum_illumination),
         shine |-> 1]

\* _VIEWER
Viewer == <<QInt(0), QInt(0), QInt(1)>>

\* A plausible slip: the specular light takes the colour of the material,
\* as the ambient and the diffuse light do.
UniformShadingModelTinted(N, mat, light_source) ==
    LET L == light_source.direction
        L_dot_N == Vec3Dot(L, N)
        R == Vec3Subtract(Vec3Scale(N, QMul(QInt(2), L_dot_N)), L)
        R_dot_V == Vec3Dot(R, Viewer)
        a_term == Vec3Scale(mat.color, mat.ambient)
        d_term == Vec3Scale(Vec3Multiply(mat.color, light_source.color),
                            QMul(mat.diffuse, QMax0(L_dot_N)))
        s_term == Vec3Scale(mat.color,
                            QMul(mat.specular, QPow(QMax0(R_dot_V), mat.shine)))
    IN  Vec3VSum(<<a_term, d_term, s_term>>)

\* The value uniform_shading_model returns for a material whose colour is
\* clamped already.
UniformShadingModel(N, mat, light_source) ==
    LET I_a == mat.color
        I_d == mat.color
        I_s == light_source.color
        k_a == mat.ambient
        k_d == mat.diffuse
        k_s == mat.specular
        L == light_source.direction
        L_dot_N == Vec3Dot(L, N)
        R == Vec3Subtract(Vec3Scale(N, QMul(QInt(2), L_dot_N)), L)
        R_dot_V == Vec3Dot(R, Viewer)
        a_term == Vec3Scale(I_a, k_a)
        d_term == Vec3Scale(Vec3Multiply(I_d, I_s), QMul(k_d, QMax0(L_dot_N)))
        s_term == Vec3Scale(I_s, QMul(k_s, QPow(QMax0(R_dot_V), mat.shine)))
    IN  Vec3VSum(<<a_term, d_term, s_term>>)

\* A plausible slip: the ambient weight is left as it is.
DivideAmbientKept(ambient, n) == ambient

\* material.ambient /= len(light_sources)
DivideAmbient(ambient, n) == QDivInt(ambient, n)

\* A plausible slip: the ambient weight is divided once more.
RestoreAmbientDivided(ambient, n) == QDivInt(ambient, n)

\* A plausible slip: the ambient weight is not multiplied back.
RestoreAmbientSkipped(ambient, n) == ambient

\* material.ambient *= len(light_sources)
RestoreAmbient(ambient, n) == QMul(ambient, QInt(n))

\* The hexadecimal colours of the lights and of the material: 00, 33, 99, ff
\* are the intensities 0, 1/5, 3/5 and 1.
HexColors ==
    {<<3, 3, 3, 3, 3, 3>>, <<15, 15, 15, 15, 0, 0>>, <<3, 3, 9, 9, 15, 15>>}

\* The directions of the lights and the normals, of whole magnitude.
Directions == {<<0, 0, 1>>, <<0, 4, 3>>, <<0, -1, 0>>}
Normals == {<<0, 0, 2>>, <<0, 3, 4>>, <<0, 0, 0>>}

\* The weights handed to Material.
Weights == {<<1, 6, 3>>, <<2, 1, 1>>}

LightSources == {LightSource(h, d) : h \in HexColors, d \in Directions}

Materials == {Material(h, w[1], w[2], w[3]) : h \in HexColors, w \in Weights}

notIllum == <<dedupVars, unionVars, bevelVars, pathVars, calibVars, xsectVars, materialVars, shadeVars, repairVars, squaresVars, diamondVars, refVars>>

NoMaterial == [color |-> <<>>, ambient |-> QInt(0), diffuse |-> QInt(0),
               specular |-> QInt(0), shine |-> 0]

IdleIllum ==
    /\ normal_vector = <<>>
    /\ material = NoMaterial
    /\ material0 = NoMaterial
    /\ light_sources = <<>>
    /\ unit_normal = <<>>
    /\ colors = <<>>
    /\ sum_vector = <<>>
    /\ hex = <<>>
    /\ ipc = "idle"

InitIllumOnly ==
    /\ normal_vector \in Normals
    /\ material \in Materials
    /\ material0 = material
    /\ light_sources \in SeqsUpTo(LightSources, MaxLights)
    /\ unit_normal = <<>>
    /\ colors = <<>>
    /\ sum_vector = <<>>
    /\ hex = <<>>
    /\ ipc = "call"

\* material.ambient /= len(light_sources): a ZeroDivisionError without lights
IllumDivideAmbient ==
    /\ ipc = "call"
    /\ IF Len(light_sources) = 0
       THEN /\ ipc' = "ZeroDivisionError"
            /\ UNCHANGED material
       ELSE /\ material' = [material EXCEPT
                   !.ambient = DivideAmbient(@, Len(light_sources))]
            /\ ipc' = "normalize"
    /\ UNCHANGED <<normal_vector, material0, light_sources, unit_normal,
                   colors, sum_vector, hex>>
    /\ UNCHANGED notIllum

\* normal_vector = vec3.normalize(normal_vector)
IllumNormalize ==
    /\ ipc = "normalize"
    /\ LET n == Normalize(normal_vector)
       IN  IF n.raised
           THEN /\ ipc' = "ValueError"
                /\ UNCHANGED unit_normal
           ELSE /\ unit_normal' = n.vec
                /\ ipc' = "shade"
    /\ UNCHANGED <<normal_vector, material, material0, light_sources,
                   colors, sum_vector, hex>>
    /\ UNCHANGED notIllum

\* One call of uniform_shading_model in the list comprehension: it stores
\* the clamped colour in the material and its value joins colors.
IllumShade ==
    /\ ipc = "shade"
    /\ Len(colors) < Len(light_sources)
    /\ LET clamped == [material EXCEPT !.color = Vec3Clamp(@)]
       IN  /\ material' = clamped
           /\ colors' = Append(colors,
                  UniformShadingModel(unit_normal, clamped,
                                      light_sources[Len(colors) + 1]))
    /\ UNCHANGED <<normal_vector, material0, light_sources, unit_normal,
                   sum_vector, hex, ipc>>
    /\ UNCHANGED notIllum

\* sum_vector = vec3.clamp(vec3.vsum(*colors))
IllumSum ==
    /\ ipc = "shade"
    /\ Len(colors) = Len(light_sources)
    /\ sum_vector' = Vec3Clamp(Vec3VSum(colors))
    /\ ipc' = "restore"
    /\ UNCHANGED <<normal_vector, material, material0, light_sources,
                   unit_normal, colors, hex>>
    /\ UNCHANGED notIllum

\* material.ambient *= len(light_sources)
IllumRestore ==
    /\ ipc = "restore"
    /\ material' = [material EXCEPT
           !.ambient = RestoreAmbient(@, Len(light_sources))]
    /\ ipc' = "return"
    /\ UNCHANGED <<normal_vector, material0, light_sources, unit_normal,
                   colors, sum_vector, hex>>
    /\ UNCHANGED notIllum

\* return _intensity_to_hex(sum_vector)
IllumReturn ==
    /\ ipc = "return"
    /\ hex' = IntensityToHex(sum_vector)
    /\ ipc' = "done"
    /\ UNCHANGED <<normal_vector, material, material0, light_sources,
                   unit_normal, colors, sum_vector>>
    /\ UNCHANGED notIllum

NextIllum ==
    \/ IllumDivideAmbient
    \/ IllumNormalize
    \/ IllumShade
    \/ IllumSum
    \/ IllumRestore
    \/ IllumReturn

---------------------------------------------------------------------------
(* Claims about illuminate                                                 *)

\* The unit normal and, for light i, L.N and R.V with R = 2 (L.N) N - L and
\* V = (0, 0, 1).
UnitNormal == Normalize(normal_vector).vec
LdotN(i) == Vec3Dot(light_sources[i].direction, UnitNormal)
RdotV(i) ==
    QSub(QMul(QMul(QInt(2), LdotN(i)), UnitNormal[3]),
         light_sources[i].direction[3])

\* Channel ch of the diffuse and specular light of the lights i .. k.
RECURSIVE DirectLight(_, _)
DirectLight(ch, i) ==
    IF i > Len(light_sources) THEN QInt(0)
    ELSE LET base == QClamp01(material0.color[ch])
             lit == light_sources[i].color[ch]
             dif == QMul(QMul(base, lit), QMul(material0.diffuse, QMax0(LdotN(i))))
             spc == QMul(lit, QMul(material0.specular, QMax0(RdotV(i))))
         IN  QAdd(QAdd(dif, spc), DirectLight(ch, i + 1))

\* The colour of the face when the ambient light material.color *
\* material.ambient is counted `times` times.
LitColor(times) ==
    [ch \in 1 .. 3 |->
        QClamp01(QAdd(QMul(QInt(times),
                           QMul(QClamp01(material0.color[ch]), material0.ambient)),
                      DirectLight(ch, 1)))]

\* C2 as stated: illuminate returns the hex of the clamped sum of the
\* shades, each with the whole ambient weight, so that k lights give k
\* times the ambient light material.color * material.ambient.
C2_AmbientPerLight ==
    ipc = "done" => hex = IntensityToHex(LitColor(Len(light_sources)))

\* C2 amended: illuminate returns the hex of the clamped sum of the shades,
\* each with the ambient weight divided by the number of lights, so that the
\* ambient light material.color * material.ambient is counted once however
\* many lights there are.
C2_AmbientOnce ==
    ipc = "done" => hex = IntensityToHex(LitColor(1))

\* C2 witness: illuminate has returned for two or more lights, with a
\* colour that counting the ambient light once for each light would change.
C2_Witness ==
    /\ ipc = "done"
    /\ Len(light_sources) >= 2
    /\ hex = IntensityToHex(LitColor(1))
    /\ hex # IntensityToHex(LitColor(Len(light_sources)))

\* Channel ch of the shades of the lights i .. k as they were returned, added
\* up without clamping.
RECURSIVE ShadeSum(_, _)
ShadeSum(ch, i) ==
    IF i > Len(colors) THEN QInt(0)
    ELSE QAdd(colors[i][ch], ShadeSum(ch, i + 1))

\* The 8-bit value of channel ch: the sum of the shades clamped once.
ChannelOfSum(ch) == FloatTo8BitInt(QClamp01(ShadeSum(ch, 1)))

\* C12: for a non-zero normal and one light or more, illuminate raises no
\* error and returns six hexadecimal digits, the three channels in 0 .. 255:
\* the shades of the lights are added up unclamped and the sum is clamped to
\* [0, 1] once before it is converted.
C12_ValidHex ==
    /\ (normal_vector # <<0, 0, 0>> /\ light_sources # <<>>) =>
           ipc \notin {"ValueError", "ZeroDivisionError"}
    /\ ipc = "done" =>
           /\ Len(hex) = 6
           /\ \A k \in 1 .. 6 : hex[k] \in 0 .. 15
           /\ Len(colors) = Len(light_sources)
           /\ \A ch \in 1 .. 3 :
                  /\ ChannelOfSum(ch) \in 0 .. 255
                  /\ 16 * hex[2 * ch - 1] + hex[2 * ch] = ChannelOfSum(ch)

\* C12 witness: illuminate has returned for two lights whose shades add up
\* to more than 1 in one channel and to less than 1 in another.
C12_Witness ==
    /\ ipc = "done"
    /\ Len(light_sources) = 2
    /\ \E ch \in 1 .. 3 : ShadeSum(ch, 1)[1] > ShadeSum(ch, 1)[2]
    /\ \E ch \in 1 .. 3 : ShadeSum(ch, 1)[1] < ShadeSum(ch, 1)[2] /\ ShadeSum(ch, 1)[1] > 0

\* C18 as stated: no step of illuminate or of uniform_shading_model writes
\* the material: during the call and after it, color, ambient, diffuse,
\* specular and shine hold the values they had before the call.
C18_MaterialNeverWritten ==
    ipc # "idle" => material = material0

\* C18 amended: illuminate writes the ambient weight of the material.  From
\* its first statement until it multiplies it back, ambient holds its value
\* divided by the number of lights, and the ValueError of a zero normal
\* leaves it divided; after a call that returns, ambient is its value
\* divided by the number of lights and multiplied by it again.  color (which
\* uniform_shading_model stores clamped to [0, 1], unchanged for a colour in
\* that range), diffuse, specular and shine hold the values they had before
\* the call, during the call and after it.
C18_AmbientDividedDuringCall ==
    ipc # "idle" =>
        /\ material.color = material0.color
        /\ material.diffuse = material0.diffuse
        /\ material.specular = material0.specular
        /\ material.shine = material0.shine
        /\ ipc \in {"call", "ZeroDivisionError", "return", "done"} =>
               material.ambient = material0.ambient
        /\ ipc \in {"normalize", "shade", "restore", "ValueError"} =>
               /\ material.ambient[2] > 0
               /\ material.ambient[1] * material0.ambient[2] * Len(light_sources)
                      = material0.ambient[1] * material.ambient[2]

\* C18 witness: illuminate is at work for two lights, one shade computed,
\* and the ambient weight of the material is not the one it was called with.
C18_Witness ==
    /\ ipc = "shade"
    /\ Len(light_sources) = 2
    /\ Len(colors) = 1
    /\ material.ambient # material0.ambient
    /\ material.color = material0.color

\* C28: when illuminate has returned or raised, the ambient weight of the
\* material is the one it had before the call, the division and the
\* multiplication by the number of lights taken as exact.
C28_AmbientRestored ==
    ipc \in {"done", "ValueError", "ZeroDivisionError"} =>
        material.ambient = material0.ambient

---------------------------------------------------------------------------
(* Path data strings: new_data_string (glyphs.py) and                      *)
(* _get_pts_from_datastring (reference_paths.py).                          *)
(*                                                                         *)
(* A coordinate is a whole number of thirds of 1e-6, so that a float may   *)
(* lie off the six decimals format_number keeps.  A string is a sequence   *)
(* of characters <<kind, value>>: a command letter, a comma, a space, or   *)
(* the text of one formatted number ("n", with its value in units of       *)
(* 1e-6).                                                                  *)

\* bound of the inputs
MaxPathPts == 3

Letter(c) == <<c, 0>>
Comma == <<",", 0>>
Space == <<" ", 0>>

\* svg_ultralight.format_number(x): f"{x:0.6f}" without trailing zeros, "-0"
\* written "0": the text of the nearest multiple of 1e-6
FormatNumber(v) == <<"n", (v + 1) \div 3>>

\* float(text)
Float(text) ==
    IF Len(text) = 1 /\ text[1][1] = "n"
    THEN [raised |-> FALSE, val |-> 3 * text[1][2]]
    ELSE [raised |-> TRUE, val |-> 0]

\* sep.join(strings)
RECURSIVE Join(_, _)
Join(strings, sep) ==
    IF strings = <<>> THEN <<>>
    ELSE IF Len(strings) = 1 THEN strings[1]
         ELSE strings[1] \o sep \o Join(Tail(strings), sep)

\* text.split(sep): the pieces between the separators, empty ones included
RECURSIVE SplitAt(_, _)
SplitAt(text, sep) ==
    IF text = <<>> THEN << <<>> >>
    ELSE LET rest == SplitAt(Tail(text), sep)
         IN  IF Head(text) = sep THEN << <<>> >> \o rest
             ELSE << <<Head(text)>> \o Head(rest) >> \o Tail(rest)

\* text.split(): the words between runs of whitespace
Words(text) == SelectSeq(SplitAt(text, Space), LAMBDA w : w # <<>>)

\* word in text, for strings: word is a substring of text
IsSubstr(word, text) ==
    \E i \in 0 .. (Len(text) - Len(word)) : SubSeq(text, i + 1, i + Len(word)) = word

\* A plausible slip: a run of H or V commands is merged into its first
\* command, which is left as it is.
AddSegmentFirstOfRun(commands, p1, p2) ==
    LET last == commands[Len(commands)]
        front == SubSeq(commands, 1, Len(commands) - 1)
    IN  IF p1[1] = p2[1]
        THEN IF last[1] = Letter("V")
             THEN commands
             ELSE Append(commands, <<Letter("V"), p2[2]>>)
        ELSE IF p1[2] = p2[2]
        THEN IF last[1] = Letter("H")
             THEN commands
             ELSE Append(commands, <<Letter("H"), p2[1]>>)
        ELSE IF last[1] \in {Letter("M"), Letter("L")}
        THEN Append(front, last \o <<Space, p2[1], Comma, p2[2]>>)
        ELSE Append(commands, <<Letter("L"), p2[1], Comma, p2[2]>>)

\* A plausible slip: every segment gets a command of its own and a run of
\* H or V commands is not merged.
AddSegmentNoMerge(commands, p1, p2) ==
    IF p1[1] = p2[1] THEN Append(commands, <<Letter("V"), p2[2]>>)
    ELSE IF p1[2] = p2[2] THEN Append(commands, <<Letter("H"), p2[1]>>)
    ELSE Append(commands, <<Letter("L"), p2[1], Comma, p2[2]>>)

\* The body of the loop of _new_data_string_single for the segment from
\* (x1, y1) = p1 to (x2, y2) = p2.
AddSegment(commands, p1, p2) ==
    LET last == commands[Len(commands)]
        front == SubSeq(commands, 1, Len(commands) - 1)
    IN  IF p1[1] = p2[1]
        THEN IF last[1] = Letter("V")
             THEN Append(front, <<Letter("V"), p2[2]>>)
             ELSE Append(commands, <<Letter("V"), p2[2]>>)
        ELSE IF p1[2] = p2[2]
        THEN IF last[1] = Letter("H")
             THEN Append(front, <<Letter("H"), p2[1]>>)
             ELSE Append(commands, <<Letter("H"), p2[1]>>)
        ELSE IF last[1] \in {Letter("M"), Letter("L")}
        THEN Append(front, last \o <<Space, p2[1], Comma, p2[2]>>)
        ELSE Append(commands, <<Letter("L"), p2[1], Comma, p2[2]>>)

\* for (x1, y1), (x2, y2) in zip(str_tuples, str_tuples[1:]), from index i
RECURSIVE AddSegments(_, _, _)
AddSegments(commands, str_tuples, i) ==
    IF i >= Len(str_tuples) THEN commands
    ELSE AddSegments(AddSegment(commands, str_tuples[i], str_tuples[i + 1]),
                     str_tuples, i + 1)

\* A plausible slip: the path is left open, without the closing Z.
NewDataStringSingleOpen(pts) ==
    LET formatted == [k \in 1 .. Len(pts) |->
                         <<FormatNumber(pts[k][1]), FormatNumber(pts[k][2])>>]
        str_tuples == RemoveIdenticalAdjacentValues(formatted, FALSE)
    IN  IF str_tuples = <<>> THEN [raised |-> "IndexError", str |-> <<>>]
        ELSE LET first == <<Letter("M"), str_tuples[1][1], Comma, str_tuples[1][2]>>
                 commands == AddSegments(<<first>>, str_tuples, 1)
             IN  [raised |-> "none", str |-> Join(commands, <<Space>>)]

\* _new_data_string_single(pts): the string, or the IndexError of
\* str_tuples[0] for an empty list
NewDataStringSingle(pts) ==
    LET formatted == [k \in 1 .. Len(pts) |->
                         <<FormatNumber(pts[k][1]), FormatNumber(pts[k][2])>>]
        str_tuples == RemoveIdenticalAdjacentValues(formatted, FALSE)
    IN  IF str_tuples = <<>> THEN [raised |-> "IndexError", str |-> <<>>]
        ELSE LET first == <<Letter("M"), str_tuples[1][1], Comma, str_tuples[1][2]>>
                 commands == AddSegments(<<first>>, str_tuples, 1)
             IN  [raised |-> "none",
                  str |-> Join(commands, <<Space>>) \o <<Letter("Z")>>]

\* new_data_string(*pts_lists)
NewDataString(lists) ==
    LET singles == [k \in 1 .. Len(lists) |-> NewDataStringSingle(lists[k])]
    IN  IF \E k \in 1 .. Len(lists) : singles[k].raised # "none"
        THEN [raised |-> "IndexError", str |-> <<>>]
        ELSE [raised |-> "none",
              str |-> Join([k \in 1 .. Len(lists) |-> singles[k].str], <<Space>>)]

CommandLetters ==
    <<Letter("M"), Letter("L"), Letter("H"), Letter("V"), Letter("Z")>>

Raise(error) == [raised |-> error, pts |-> <<>>]

\* The loop of _get_pts_from_datastring over the words left, with the
\* locals command and pts.
RECURSIVE ParseWords(_, _, _)
ParseWords(words, command, pts) ==
    IF words = <<>> THEN [raised |-> "none", pts |-> pts]
    ELSE LET word == Head(words)
         IN  IF IsSubstr(word, CommandLetters)
             THEN ParseWords(Tail(words), word, pts)
             ELSE IF IsSubstr(command, <<Letter("M"), Letter("L")>>)
             THEN LET parts == SplitAt(word, Comma)
                  IN  IF Len(parts) # 2 THEN Raise("ValueError")
                      ELSE LET x == Float(parts[1])
                               y == Float(parts[2])
                           IN  IF x.raised \/ y.raised THEN Raise("ValueError")
                               ELSE ParseWords(Tail(words), command,
                                               Append(pts, <<x.val, y.val>>))
             ELSE IF command = <<Letter("H")>>
             THEN LET x == Float(word)
                  IN  IF x.raised THEN Raise("ValueError")
                      ELSE IF pts = <<>> THEN Raise("IndexError")
                      ELSE ParseWords(Tail(words), command,
                                      Append(pts, <<x.val, pts[Len(pts)][2]>>))
             ELSE IF command = <<Letter("V")>>
             THEN LET y == Float(word)
                  IN  IF pts = <<>> THEN Raise("IndexError")
                      ELSE IF y.raised THEN Raise("ValueError")
                      ELSE ParseWords(Tail(words), command,
                                      Append(pts, <<pts[Len(pts)][1], y.val>>))
             ELSE ParseWords(Tail(words), command, pts)

\* A plausible slip: the last point is kept when it repeats the first.
GetPtsFromDatastringKeepLast(text) ==
    LET r == ParseWords(Words(text), <<Letter("M")>>, <<>>)
    IN  IF r.raised # "none" THEN r
        ELSE IF r.pts = <<>> THEN Raise("IndexError")
        ELSE r

\* _get_pts_from_datastring(datastring): the points, or the error raised
GetPtsFromDatastring(text) ==
    LET r == ParseWords(Words(text), <<Letter("M")>>, <<>>)
    IN  IF r.raised # "none" THEN r
        ELSE IF r.pts = <<>> THEN Raise("IndexError")
        ELSE IF r.pts[1] = r.pts[Len(r.pts)]
             THEN [raised |-> "none", pts |-> SubSeq(r.pts, 1, Len(r.pts) - 1)]
             ELSE r

\* The points of the outlines: x off the grid of 1e-6 at 1/3.
PathPoints == {<<x, y>> : x \in {0, 1, 3, 6}, y \in {0, 3, 6}}

\* Two outlines written to one string.
TwoOutlines ==
    {<<p, q>> : p, q \in {<< <<0, 0>>, <<3, 0>>, <<3, 3>> >>,
                          << <<0, 0>>, <<6, 6>> >>}}

notPath == <<dedupVars, unionVars, bevelVars, illumVars, calibVars, xsectVars, materialVars, shadeVars, repairVars, squaresVars, diamondVars, refVars>>

NoString == [raised |-> "none", str |-> <<>>]

IdlePath ==
    /\ path_lists = <<>>
    /\ datastring = NoString
    /\ parsed = Raise("none")
    /\ ppc = "idle"

InitPathOnly ==
    /\ path_lists \in {<<p>> : p \in SeqsUpTo(PathPoints, MaxPathPts)} \cup TwoOutlines
    /\ datastring = NoString
    /\ parsed = Raise("none")
    /\ ppc = "call"

\* The call new_data_string(*pts_lists).
CallNewDataString ==
    /\ ppc = "call"
    /\ datastring' = NewDataString(path_lists)
    /\ ppc' = "written"
    /\ UNCHANGED <<path_lists, parsed>>
    /\ UNCHANGED notPath

\* The call _get_pts_from_datastring on the string written.
CallGetPts ==
    /\ ppc = "written"
    /\ datastring.raised = "none"
    /\ parsed' = GetPtsFromDatastring(datastring.str)
    /\ ppc' = "parsed"
    /\ UNCHANGED <<path_lists, datastring>>
    /\ UNCHANGED notPath

NextPath == CallNewDataString \/ CallGetPts

---------------------------------------------------------------------------
(* Claims about the path data strings                                      *)

\* The one outline P handed to new_data_string.
OnePath == Len(path_lists) = 1
P == path_lists[1]

\* P has a point and no two identical cyclically adjacent points.
IsPolygon(pts) ==
    /\ Len(pts) >= 1
    /\ \A i \in Range(Len(pts)) : Len(pts) > 1 => At(pts, i) # NextPt(pts, i)

\* The string with every command letter set off as a word of its own, the
\* form of the reference paths ("M 0,0 H 3 Z").
RECURSIVE Spaced(_)
Spaced(text) ==
    IF text = <<>> THEN <<>>
    ELSE IF IsSubstr(<<Head(text)>>, CommandLetters)
         THEN <<Space, Head(text), Space>> \o Spaced(Tail(text))
         ELSE <<Head(text)>> \o Spaced(Tail(text))

\* The multiple of 1e-6 nearest to a coordinate.
Nearest(v) == CHOOSE r \in {3 * k : k \in -1 .. 3} : (r - v) \in -1 .. 1

\* The points of P as the string carries them: on the grid of 1e-6,
\* without identical cyclically adjacent points and without the points
\* inside a run of horizontal or of vertical segments.
Carried(pts) ==
    LET near == [k \in 1 .. Len(pts) |-> <<Nearest(pts[k][1]), Nearest(pts[k][2])>>]
        d == RemoveIdenticalAdjacentValues(near, FALSE)
        inside(k) == /\ 1 < k
                     /\ k < Len(d)
                     /\ \/ d[k - 1][1] = d[k][1] /\ d[k][1] = d[k + 1][1]
                        \/ d[k - 1][2] = d[k][2] /\ d[k][2] = d[k + 1][2]
    IN  SelectSeq([k \in 1 .. Len(d) |-> <<k, d[k]>>], LAMBDA e : ~inside(e[1]))

CarriedPts(pts) == [k \in 1 .. Len(Carried(pts)) |-> Carried(pts)[k][2]]

\* C3 as stated: for a polygon P, parsing new_data_string(P) with
\* _get_pts_from_datastring gives the point list P.
C3_RoundTripExact ==
    (ppc = "parsed" /\ OnePath /\ IsPolygon(P)) =>
        parsed = [raised |-> "none", pts |-> P]

\* C3 amended: the parser raises ValueError on the string new_data_string
\* wrote for P.  Once the command letters of that string are set off as
\* words, the parser gives the points the string carries, none for a single
\* point; these are the points of P exactly when P has two points or more,
\* all on the grid of 1e-6, none of them inside a run of horizontal or of
\* vertical segments.
C3_RoundTrip ==
    (ppc = "parsed" /\ OnePath /\ IsPolygon(P)) =>
        LET back == GetPtsFromDatastring(Spaced(datastring.str))
        IN  /\ parsed = Raise("ValueError")
            /\ back.raised = "none"
            /\ back.pts = IF Len(CarriedPts(P)) = 1 THEN <<>> ELSE CarriedPts(P)
            /\ back.pts = P <=>
                   /\ Len(P) >= 2
                   /\ \A k \in 1 .. Len(P) :
                          P[k] = <<Nearest(P[k][1]), Nearest(P[k][2])>>
                   /\ \A k \in 2 .. (Len(P) - 1) :
                          /\ ~(P[k - 1][1] = P[k][1] /\ P[k][1] = P[k + 1][1])
                          /\ ~(P[k - 1][2] = P[k][2] /\ P[k][2] = P[k + 1][2])

\* C3 witness: a polygon with an axis-aligned and a general segment has
\* been written and parsed; the parser raised, and gives P back from the
\* string with its letters set off.
C3_Witness ==
    /\ ppc = "parsed"
    /\ OnePath
    /\ IsPolygon(P)
    /\ Len(P) = 3
    /\ P[1][2] = P[2][2]
    /\ P[2][1] # P[3][1] /\ P[2][2] # P[3][2]
    /\ parsed.raised = "ValueError"
    /\ GetPtsFromDatastring(Spaced(datastring.str)).pts = P

\* The places of a character in a text, in increasing order.
PlacesOf(text, char) == SortedSeq({i \in 1 .. Len(text) : text[i] = char})

\* C16: for k point lists, none of them empty, new_data_string writes k
\* subpaths: each begins with its one M command, which carries the first
\* point of the list as it is formatted, and ends with a Z of its own; the
\* string holds numbers, commas, spaces and no letter but the absolute
\* commands M, L, H, V and Z.
C16_Subpaths ==
    (ppc # "call" /\ \A k \in 1 .. Len(path_lists) : path_lists[k] # <<>>) =>
        LET text == datastring.str
            ms == PlacesOf(text, Letter("M"))
            zs == PlacesOf(text, Letter("Z"))
        IN  /\ datastring.raised = "none"
            /\ Len(ms) = Len(path_lists)
            /\ Len(zs) = Len(path_lists)
            /\ \A k \in 1 .. Len(path_lists) :
                   /\ ms[k] = IF k = 1 THEN 1 ELSE zs[k - 1] + 2
                   /\ k > 1 => text[zs[k - 1] + 1] = Space
                   /\ ms[k] + 3 < zs[k]
                   /\ k = Len(path_lists) => zs[k] = Len(text)
                   /\ text[ms[k] + 1] = <<"n", (path_lists[k][1][1] + 1) \div 3>>
                   /\ text[ms[k] + 2] = Comma
                   /\ text[ms[k] + 3] = <<"n", (path_lists[k][1][2] + 1) \div 3>>
            /\ \A i \in 1 .. Len(text) :
                   text[i][1] \in {"n", ",", " ", "M", "L", "H", "V", "Z"}

\* C16 witness: two outlines have been written, one with a horizontal and
\* a vertical segment and one with a diagonal segment.
C16_Witness ==
    /\ ppc = "written"
    /\ Len(path_lists) = 2
    /\ Len(PlacesOf(datastring.str, Letter("Z"))) = 2
    /\ Len(PlacesOf(datastring.str, Letter("H"))) = 1
    /\ Len(PlacesOf(datastring.str, Letter("V"))) = 1
    /\ \E i \in 1 .. Len(datastring.str) : datastring.str[i] = Space

\* The formatted points of P without identical adjacent ones, and its
\* segments k = 1 .. Len - 1 with equal formatted y or equal formatted x.
FormattedP ==
    RemoveIdenticalAdjacentValues(
        [k \in 1 .. Len(P) |-> <<FormatNumber(P[k][1]), FormatNumber(P[k][2])>>],
        FALSE)
EqualY(k) == FormattedP[k][2] = FormattedP[k + 1][2]
EqualX(k) == FormattedP[k][1] = FormattedP[k + 1][1]

\* The segments that end a maximal run of segments with equal y, with
\* equal x.
LastOfRunsY ==
    SortedSeq({k \in 1 .. (Len(FormattedP) - 1) :
                  EqualY(k) /\ (k + 1 < Len(FormattedP) => ~EqualY(k + 1))})
LastOfRunsX ==
    SortedSeq({k \in 1 .. (Len(FormattedP) - 1) :
                  EqualX(k) /\ (k + 1 < Len(FormattedP) => ~EqualX(k + 1))})

\* The letters of a text, in order.
LettersOf(text) == SelectSeq(text, LAMBDA c : c[1] \notin {"n", ",", " "})

\* C17: in the string written for one polygon no H command is followed at
\* once by an H and no V by a V: every maximal run of segments with equal
\* formatted y is one H command, every maximal run with equal formatted x
\* one V command, and the command carries the coordinate of the last point
\* of its run.
C17_RunsMerged ==
    (ppc # "call" /\ OnePath /\ P # <<>>) =>
        LET text == datastring.str
            letters == LettersOf(text)
            hs == PlacesOf(text, Letter("H"))
            vs == PlacesOf(text, Letter("V"))
        IN  /\ \A i \in 1 .. (Len(letters) - 1) :
                   letters[i] \in {Letter("H"), Letter("V")} =>
                       letters[i + 1] # letters[i]
            /\ Len(hs) = Len(LastOfRunsY)
            /\ \A j \in 1 .. Len(hs) :
                   text[hs[j] + 1] = FormattedP[LastOfRunsY[j] + 1][1]
            /\ Len(vs) = Len(LastOfRunsX)
            /\ \A j \in 1 .. Len(vs) :
                   text[vs[j] + 1] = FormattedP[LastOfRunsX[j] + 1][2]

\* C17 witness: a polygon with a run of two segments of equal y has been
\* written with one H command.
C17_Witness ==
    /\ ppc = "written"
    /\ OnePath
    /\ Len(FormattedP) = 3
    /\ EqualY(1)
    /\ EqualY(2)
    /\ Len(PlacesOf(datastring.str, Letter("H"))) = 1

\* The points of P on the grid of 1e-6 without identical cyclically
\* adjacent ones, and the places among them that stand inside a run of
\* horizontal or of vertical segments.
OnGrid(pts) ==
    RemoveIdenticalAdjacentValues(
        [k \in 1 .. Len(pts) |-> <<Nearest(pts[k][1]), Nearest(pts[k][2])>>], FALSE)
InsideRun(d, k) ==
    /\ 1 < k
    /\ k < Len(d)
    /\ \/ d[k - 1][1] = d[k][1] /\ d[k][1] = d[k + 1][1]
       \/ d[k - 1][2] = d[k][2] /\ d[k][2] = d[k + 1][2]

\* The places kept nearest to place k, before it and after it.
KeptBefore(d, k) == CHOOSE j \in 1 .. (k - 1) :
    ~InsideRun(d, j) /\ \A h \in (j + 1) .. (k - 1) : InsideRun(d, h)
KeptAfter(d, k) == CHOOSE j \in (k + 1) .. Len(d) :
    ~InsideRun(d, j) /\ \A h \in (k + 1) .. (j - 1) : InsideRun(d, h)

\* p lies on the segment from a to b.
LiesBetween(a, p, b) ==
    /\ (b[1] - a[1]) * (p[2] - a[2]) = (b[2] - a[2]) * (p[1] - a[1])
    /\ (a[1] <= p[1] /\ p[1] <= b[1]) \/ (b[1] <= p[1] /\ p[1] <= a[1])
    /\ (a[2] <= p[2] /\ p[2] <= b[2]) \/ (b[2] <= p[2] /\ p[2] <= a[2])

\* C29: the commands _new_data_string_single writes for P trace the outline
\* of P: read back, they give the points of P without identical adjacent
\* ones and without the points inside a run of horizontal or of vertical
\* segments, and every point left out lies on the segment between the two
\* points kept next to it, also where a run turns back on itself.
C29_OutlineKept ==
    (ppc = "written" /\ OnePath /\ datastring.raised = "none") =>
        LET d == OnGrid(P)
            back == GetPtsFromDatastring(Spaced(datastring.str))
        IN  /\ back.raised = "none"
            /\ back.pts = IF Len(CarriedPts(P)) = 1 THEN <<>> ELSE CarriedPts(P)
            /\ \A k \in 1 .. Len(d) :
                   InsideRun(d, k) =>
                       LiesBetween(d[KeptBefore(d, k)], d[k], d[KeptAfter(d, k)])

---------------------------------------------------------------------------
(* illuminate as one call, and the calibration of a material colour        *)
(* (set_material_color, which diamond.py imports from illumination.py).    *)

\* bound of the inputs
MaxCalibLights == 2

\* illuminate(normal_vector, material, *light_sources): the colour returned
\* or the error raised, and the material as the call leaves it
Illuminate(normal, mat, lights) ==
    IF Len(lights) = 0
    THEN [raised |-> "ZeroDivisionError", hex |-> <<>>, material |-> mat]
    ELSE LET divided == [mat EXCEPT !.ambient = DivideAmbient(@, Len(lights))]
             n == Normalize(normal)
         IN  IF n.raised
             THEN [raised |-> "ValueError", hex |-> <<>>, material |-> divided]
             ELSE LET clamped == [divided EXCEPT !.color = Vec3Clamp(@)]
                      shades == [k \in 1 .. Len(lights) |->
                                    UniformShadingModel(n.vec, clamped, lights[k])]
                      total == Vec3Clamp(Vec3VSum(shades))
                  IN  [raised |-> "none",
                       hex |-> IntensityToHex(total),
                       material |-> [clamped EXCEPT
                           !.ambient = RestoreAmbient(@, Len(lights))]]

\* The material with the colour set through rgb_color.
WithRgbColor(mat, rgb) == [mat EXCEPT !.color = RgbToIntensity(rgb)]

\* The goal lies between low and high in every channel.
Bracketed(lo, goal_rgb, hi) ==
    \A ch \in 1 .. 3 : lo[ch] <= goal_rgb[ch] /\ goal_rgb[ch] <= hi[ch]

\* Every channel shown reaches the goal.
MeetsGoal(rgb, goal_rgb) == \A ch \in 1 .. 3 : rgb[ch] >= goal_rgb[ch]

\* The next candidate: one more in the channels still below the goal.
Increment(cand, rgb, goal_rgb) ==
    [ch \in 1 .. 3 |-> IF rgb[ch] < goal_rgb[ch] THEN cand[ch] + 1 ELSE cand[ch]]

\* The lights, normals and goals of the calibrations.
CalibLights ==
    {LightSource(<<15, 15, 15, 15, 15, 15>>, <<0, 0, 1>>),
     LightSource(<<3, 3, 9, 9, 15, 15>>, <<0, 4, 3>>)}

CalibNormals == {<<0, 0, 1>>, <<0, 3, 4>>}

Goals == {<<40, 60, 80>>, <<100, 160, 220>>, <<255, 255, 255>>}

NoRgb == <<0, 0, 0>>

notCalib == <<dedupVars, unionVars, bevelVars, illumVars, pathVars, xsectVars, materialVars, shadeVars, repairVars, squaresVars, diamondVars, refVars>>

IdleCalib ==
    /\ c_normal = <<>>
    /\ c_material = NoMaterial
    /\ c_material0 = NoMaterial
    /\ c_lights = <<>>
    /\ goal = NoRgb
    /\ low = NoRgb
    /\ high = NoRgb
    /\ candidate = NoRgb
    /\ shown = NoRgb
    /\ returned = NoMaterial
    /\ cpc = "idle"

InitCalibOnly ==
    /\ c_normal \in CalibNormals
    /\ c_material \in Materials
    /\ c_material.color = HexToIntensity(<<15, 15, 15, 15, 0, 0>>)
    /\ c_material0 = c_material
    /\ c_lights \in SeqsUpTo(CalibLights, MaxCalibLights) \ {<<>>}
    /\ goal \in Goals
    /\ low = NoRgb
    /\ high = NoRgb
    /\ candidate = NoRgb
    /\ shown = NoRgb
    /\ returned = NoMaterial
    /\ cpc = "call"

\* The colour is forced to black and the face illuminated: low.
CalibProbeBlack ==
    /\ cpc = "call"
    /\ LET lit == Illuminate(c_normal, WithRgbColor(c_material, <<0, 0, 0>>), c_lights)
       IN  /\ c_material' = lit.material
           /\ low' = HexToRgb(lit.hex)
    /\ cpc' = "white"
    /\ UNCHANGED <<c_normal, c_material0, c_lights, goal, high, candidate,
                   shown, returned>>
    /\ UNCHANGED notCalib

\* The colour is forced to white and the face illuminated: high.
CalibProbeWhite ==
    /\ cpc = "white"
    /\ LET lit == Illuminate(c_normal, WithRgbColor(c_material, <<255, 255, 255>>),
                             c_lights)
       IN  /\ c_material' = lit.material
           /\ high' = HexToRgb(lit.hex)
    /\ cpc' = "check"
    /\ UNCHANGED <<c_normal, c_material0, c_lights, goal, low, candidate,
                   shown, returned>>
    /\ UNCHANGED notCalib

\* The colour is restored; a goal outside [low, high] is a range error,
\* otherwise the search starts at (0, 0, 0).
CalibCheckRange ==
    /\ cpc = "check"
    /\ c_material' = [c_material EXCEPT !.color = c_material0.color]
    /\ cpc' = IF Bracketed(low, goal, high) THEN "search"
              ELSE "IlluminationRangeError"
    /\ candidate' = <<0, 0, 0>>
    /\ UNCHANGED <<c_normal, c_material0, c_lights, goal, low, high, shown,
                   returned>>
    /\ UNCHANGED notCalib

\* The face is illuminated with the candidate as the material colour.
CalibTry ==
    /\ cpc = "search"
    /\ LET lit == Illuminate(c_normal, WithRgbColor(c_material, candidate), c_lights)
       IN  /\ c_material' = lit.material
           /\ shown' = HexToRgb(lit.hex)
    /\ cpc' = "tried"
    /\ UNCHANGED <<c_normal, c_material0, c_lights, goal, low, high, candidate,
                   returned>>
    /\ UNCHANGED notCalib

\* Some channel is below the goal: those channels go up by one.
CalibAdvance ==
    /\ cpc = "tried"
    /\ ~MeetsGoal(shown, goal)
    /\ candidate' = Increment(candidate, shown, goal)
    /\ cpc' = "search"
    /\ UNCHANGED <<c_normal, c_material, c_material0, c_lights, goal, low, high,
                   shown, returned>>
    /\ UNCHANGED notCalib

\* Every channel reaches the goal: the material is returned.
CalibReturn ==
    /\ cpc = "tried"
    /\ MeetsGoal(shown, goal)
    /\ returned' = c_material
    /\ cpc' = "done"
    /\ UNCHANGED <<c_normal, c_material, c_material0, c_lights, goal, low, high,
                   candidate, shown>>
    /\ UNCHANGED notCalib

\* The call moves on: every action of the calibration changes its position.
CalibStep ==
    /\ cpc \notin {"idle", "done", "IlluminationRangeError"}
    /\ cpc' \in {"white", "check", "search", "tried", "done",
                 "IlluminationRangeError"}

NextCalib ==
    \/ CalibProbeBlack
    \/ CalibProbeWhite
    \/ CalibCheckRange
    \/ CalibTry
    \/ CalibAdvance
    \/ CalibReturn

---------------------------------------------------------------------------
(* Claims about the calibration                                            *)

\* Channel ch of the face under the lights i .. k of the calibration, its
\* material colour at intensity c: the diffuse and specular light.
RECURSIVE FaceDirect(_, _, _)
FaceDirect(ch, c, i) ==
    IF i > Len(c_lights) THEN QInt(0)
    ELSE LET N == Normalize(c_normal).vec
             L == c_lights[i].direction
             LN == Vec3Dot(L, N)
             RV == QSub(QMul(QMul(QInt(2), LN), N[3]), L[3])
             lit == c_lights[i].color[ch]
             dif == QMul(QMul(c, lit), QMul(c_material0.diffuse, QMax0(LN)))
             spc == QMul(lit, QMul(c_material0.specular, QMax0(RV)))
         IN  QAdd(QAdd(dif, spc), FaceDirect(ch, c, i + 1))

\* The 8-bit value illuminate shows in channel ch for the material colour
\* c / 255 in that channel.
FaceShown(ch, c) ==
    FloatTo8BitInt(QClamp01(QAdd(QMul(Q(c, 255), c_material0.ambient),
                                 FaceDirect(ch, Q(c, 255), 1))))

\* C9: the material returned has an integer colour C for which every
\* illuminated channel reaches the goal, and C is the first candidate of
\* the search: in every channel, each lower value was still below the goal.
C9_FirstCandidate ==
    cpc = "done" =>
        /\ returned.color = RgbToIntensity(candidate)
        /\ \A ch \in 1 .. 3 :
               /\ candidate[ch] \in 0 .. 255
               /\ FaceShown(ch, candidate[ch]) >= goal[ch]
               /\ \A c \in 0 .. (candidate[ch] - 1) : FaceShown(ch, c) < goal[ch]

\* C9 witness: a calibration under two lights has returned a colour whose
\* channels took different numbers of rounds.
C9_Witness ==
    /\ cpc = "done"
    /\ Len(c_lights) = 2
    /\ candidate[1] > 0
    /\ candidate[1] # candidate[2]
    /\ candidate[2] # candidate[3]

\* The goal lies in every channel between the colours shown for a black
\* and for a white material.
GoalInRange ==
    \A ch \in 1 .. 3 : FaceShown(ch, 0) <= goal[ch] /\ goal[ch] <= FaceShown(ch, 255)

\* C10: once the range is checked, the calibration has raised the range
\* error, and returns no material, exactly when the goal is not bracketed
\* by the colours shown for black and for white.
C10_RangeError ==
    /\ cpc \in {"search", "tried", "done"} => GoalInRange
    /\ cpc = "IlluminationRangeError" => ~GoalInRange /\ returned = NoMaterial
    /\ cpc = "done" => returned # NoMaterial

\* C10 witness: the range error has been raised under two lights for a goal
\* that is too dark in one channel and in range in another.
C10_Witness ==
    /\ cpc = "IlluminationRangeError"
    /\ Len(c_lights) = 2
    /\ \E ch \in 1 .. 3 : goal[ch] < low[ch]
    /\ \E ch \in 1 .. 3 : low[ch] <= goal[ch] /\ goal[ch] <= high[ch]

\* The calibration has ended: it returned or raised the range error.
CalibEnded == cpc \in {"done", "IlluminationRangeError"}

\* No channel of the candidate is above 255.
CandidateInRange == \A ch \in 1 .. 3 : candidate[ch] \in 0 .. 255

\* C11: the calibration always ends, with the range error or with the
\* return of the search, and no channel of a candidate is ever above 255,
\* so that no channel is incremented more than 255 times.
C11_SearchTerminates == []CandidateInRange /\ <>CalibEnded

\* C11 witness: a search has returned after 250 increments of a channel or
\* more.
C11_Witness ==
    /\ cpc = "done"
    /\ \E ch \in 1 .. 3 : candidate[ch] >= 250

---------------------------------------------------------------------------
(* Line intersections: _get_ray_intersection and _get_abcd_intersection    *)
(* (letter_v.py).  Points and vectors have whole coordinates; the point    *)
(* returned is a pair of fractions.                                        *)

\* bound of the inputs: the coordinates of the points are 0 .. MaxCoord
MaxCoord == 2

\* n / d for d # 0
QDiv(n, d) == IF d < 0 THEN Q(-n, -d) ELSE Q(n, d)

\* vec2.get_standard_form(line): (a, b, c) with a x + b y + c = 0 on the
\* line through the two points
GetStandardForm(line) ==
    LET x1 == line[1][1]
        y1 == line[1][2]
        x2 == line[2][1]
        y2 == line[2][2]
        a == y2 - y1
        b == x1 - x2
    IN  <<a, b, -(a * x1 + b * y1)>>

\* vec2.get_line_intersection(line_a, line_b): None when the determinant
\* is zero
GetLineIntersection(line_a, line_b) ==
    LET det == line_a[1] * line_b[2] - line_b[1] * line_a[2]
    IN  IF det = 0 THEN [none |-> TRUE, pt |-> <<>>]
        ELSE [none |-> FALSE,
              pt |-> <<QDiv(line_a[2] * line_b[3] - line_b[2] * line_a[3], det),
                       QDiv(line_b[1] * line_a[3] - line_a[1] * line_b[3], det)>>]

\* vec2.vadd
Vec2Add(a, b) == <<a[1] + b[1], a[2] + b[2]>>

\* A plausible slip: the vector of the second ray is taken for a second
\* point of its line.
GetRayIntersectionNoAdd(a, b) ==
    LET line_a == GetStandardForm(<<a[1], Vec2Add(a[1], a[2])>>)
        line_b == GetStandardForm(<<b[1], b[2]>>)
        found == GetLineIntersection(line_a, line_b)
    IN  [raised |-> found.none, pt |-> found.pt]

\* _get_ray_intersection(ray_a, ray_b)
GetRayIntersection(a, b) ==
    LET line_a == GetStandardForm(<<a[1], Vec2Add(a[1], a[2])>>)
        line_b == GetStandardForm(<<b[1], Vec2Add(b[1], b[2])>>)
        found == GetLineIntersection(line_a, line_b)
    IN  [raised |-> found.none, pt |-> found.pt]

\* _get_abcd_intersection(seg_ab, seg_cd)
GetAbcdIntersection(ab, cd) ==
    LET line_ab == GetStandardForm(ab)
        line_cd == GetStandardForm(cd)
        found == GetLineIntersection(line_ab, line_cd)
    IN  [raised |-> found.none, pt |-> found.pt]

\* The points and the vectors of the requests.
GridPoints == (0 .. MaxCoord) \X (0 .. MaxCoord)
GridVectors == (-1 .. 1) \X (-1 .. 1)

notXsect == <<dedupVars, unionVars, bevelVars, illumVars, pathVars, calibVars, materialVars, shadeVars, repairVars, squaresVars, diamondVars, refVars>>

NoLine == <<>>

IdleXsect ==
    /\ ray_a = NoLine
    /\ ray_b = NoLine
    /\ seg_ab = NoLine
    /\ seg_cd = NoLine
    /\ xsect = <<>>
    /\ xpc = "idle"

InitXsectOnly ==
    /\ xsect = <<>>
    /\ \/ /\ xpc = "ray"
          /\ ray_a \in GridPoints \X GridVectors
          /\ ray_b \in GridPoints \X GridVectors
          /\ seg_ab = NoLine
          /\ seg_cd = NoLine
       \/ /\ xpc = "abcd"
          /\ seg_ab \in GridPoints \X GridPoints
          /\ seg_cd \in GridPoints \X GridPoints
          /\ ray_a = NoLine
          /\ ray_b = NoLine

CallGetRayIntersection ==
    /\ xpc = "ray"
    /\ LET r == GetRayIntersection(ray_a, ray_b)
       IN  IF r.raised
           THEN xpc' = "ValueError" /\ UNCHANGED xsect
           ELSE xpc' = "done" /\ xsect' = r.pt
    /\ UNCHANGED <<ray_a, ray_b, seg_ab, seg_cd>>
    /\ UNCHANGED notXsect

CallGetAbcdIntersection ==
    /\ xpc = "abcd"
    /\ LET r == GetAbcdIntersection(seg_ab, seg_cd)
       IN  IF r.raised
           THEN xpc' = "ValueError" /\ UNCHANGED xsect
           ELSE xpc' = "done" /\ xsect' = r.pt
    /\ UNCHANGED <<ray_a, ray_b, seg_ab, seg_cd>>
    /\ UNCHANGED notXsect

NextXsect ==
    \/ CallGetRayIntersection
    \/ CallGetAbcdIntersection

---------------------------------------------------------------------------
(* Claims about the line intersections                                     *)

\* The two lines of the request, each as a point and a direction.
IsRayRequest == ray_a # NoLine
FirstPoint == IF IsRayRequest THEN ray_a[1] ELSE seg_ab[1]
FirstDir ==
    IF IsRayRequest THEN ray_a[2]
    ELSE <<seg_ab[2][1] - seg_ab[1][1], seg_ab[2][2] - seg_ab[1][2]>>
SecondPoint == IF IsRayRequest THEN ray_b[1] ELSE seg_cd[1]
SecondDir ==
    IF IsRayRequest THEN ray_b[2]
    ELSE <<seg_cd[2][1] - seg_cd[1][1], seg_cd[2][2] - seg_cd[1][2]>>

\* The directions are parallel (a zero direction is parallel to every one).
ParallelLines == FirstDir[1] * SecondDir[2] - FirstDir[2] * SecondDir[1] = 0

\* The point <<x, y>> of fractions is on the line through p along d.
OnLine(pt, p, d) ==
    QSub(QMul(QSub(pt[1], QInt(p[1])), QInt(d[2])),
         QMul(QSub(pt[2], QInt(p[2])), QInt(d[1]))) = QInt(0)

\* C13: a request for the intersection of two parallel or coincident lines
\* ends in the ValueError and returns no point; for two lines that are not
\* parallel the point returned is on both, which makes it their one
\* intersection.
C13_ParallelRaises ==
    /\ xpc = "ValueError" => ParallelLines /\ xsect = <<>>
    /\ xpc = "done" =>
           /\ ~ParallelLines
           /\ Len(xsect) = 2
           /\ OnLine(xsect, FirstPoint, FirstDir)
           /\ OnLine(xsect, SecondPoint, SecondDir)

\* C13 witness: the request for two distinct parallel rays, neither along
\* an axis, has raised.
C13_Witness ==
    /\ xpc = "ValueError"
    /\ IsRayRequest
    /\ FirstDir[1] # 0 /\ FirstDir[2] # 0
    /\ SecondDir = <<-FirstDir[1], -FirstDir[2]>>
    /\ ~OnLine(<<QInt(SecondPoint[1]), QInt(SecondPoint[2])>>, FirstPoint, FirstDir)

---------------------------------------------------------------------------
(* The construction of a Material (illumination.py).                       *)

\* bound of the inputs: the weights are 0 .. MaxWeight
MaxWeight == 6

notMaterial ==
    <<dedupVars, unionVars, bevelVars, illumVars, pathVars, calibVars, xsectVars, shadeVars, repairVars, squaresVars, diamondVars, refVars>>

IdleMaterial ==
    /\ m_hex_color = <<>>
    /\ m_ambient = 0
    /\ m_diffuse = 0
    /\ m_specular = 0
    /\ m_self = NoMaterial
    /\ mpc = "idle"

InitMaterialOnly ==
    /\ m_hex_color \in HexColors
    /\ m_ambient \in 0 .. MaxWeight
    /\ m_diffuse \in 0 .. MaxWeight
    /\ m_specular \in 0 .. MaxWeight
    /\ m_self = NoMaterial
    /\ mpc = "call"

\* Material(hex_color, ambient, diffuse, specular): the division by
\* sum_illumination raises ZeroDivisionError when the weights are all zero
ConstructMaterial ==
    /\ mpc = "call"
    /\ IF m_ambient + m_diffuse + m_specular = 0
       THEN mpc' = "ZeroDivisionError" /\ UNCHANGED m_self
       ELSE /\ m_self' = Material(m_hex_color, m_ambient, m_diffuse, m_specular)
            /\ mpc' = "done"
    /\ UNCHANGED <<m_hex_color, m_ambient, m_diffuse, m_specular>>
    /\ UNCHANGED notMaterial

NextMaterial == ConstructMaterial

---------------------------------------------------------------------------
(* Claims about the construction of a Material                             *)

\* The fraction p is n / d.
IsQuotient(p, n, d) == p[2] > 0 /\ p[1] * d = n * p[2]

\* C15: after Material(colour, a, d, s) with weights of positive sum, the
\* weights stored are a / (a + d + s), d / (a + d + s) and s / (a + d + s):
\* they add up to 1, their ratios are those of a, d and s, and shine is 1.
C15_WeightsNormalized ==
    mpc = "done" =>
        LET total == m_ambient + m_diffuse + m_specular
            ka == m_self.ambient
            kd == m_self.diffuse
            ks == m_self.specular
        IN  /\ IsQuotient(ka, m_ambient, total)
            /\ IsQuotient(kd, m_diffuse, total)
            /\ IsQuotient(ks, m_specular, total)
            /\ ka[1] * kd[2] * ks[2] + kd[1] * ka[2] * ks[2] + ks[1] * ka[2] * kd[2]
                   = ka[2] * kd[2] * ks[2]
            /\ ka[1] * kd[2] * m_diffuse = kd[1] * ka[2] * m_ambient
            /\ kd[1] * ks[2] * m_specular = ks[1] * kd[2] * m_diffuse
            /\ m_self.shine = 1

\* C15 witness: a Material has been constructed from three different
\* positive weights whose sum is not 1.
C15_Witness ==
    /\ mpc = "done"
    /\ m_ambient > 0
    /\ m_ambient < m_specular
    /\ m_specular < m_diffuse
    /\ m_ambient + m_diffuse + m_specular > 1
    /\ m_self.ambient # QInt(m_ambient)

---------------------------------------------------------------------------
(* uniform_shading_model and illuminate called with a normal and with a    *)
(* multiple of it (illumination.py).                                       *)

\* bound of the inputs: the scalars are 1 .. MaxFactor
MaxFactor == 2

\* The normals handed to the calls, the first of them a unit vector.
ShadeNormals == {<<0, 0, 1>>, <<0, 3, 4>>, <<0, -4, 3>>}

\* c * n, and a vector of whole numbers as a vector of fractions
ScaledNormal(c, n) == <<c * n[1], c * n[2], c * n[3]>>
AsVec3(v) == <<QInt(v[1]), QInt(v[2]), QInt(v[3])>>

\* uniform_shading_model(normal_vector, material, light_source) as one call:
\* the value returned and the material as the call leaves it
Shade(normal, mat, light_source) ==
    LET clamped == [mat EXCEPT !.color = Vec3Clamp(@)]
    IN  [color |-> UniformShadingModel(AsVec3(normal), clamped, light_source),
         material |-> clamped]

NoLit == [raised |-> "none", hex |-> <<>>, material |-> NoMaterial]

notShade ==
    <<dedupVars, unionVars, bevelVars, illumVars, pathVars, calibVars, xsectVars,
      materialVars, repairVars, squaresVars, diamondVars, refVars>>

IdleShade ==
    /\ sh_normal = <<>>
    /\ sh_factor = 0
    /\ sh_material = NoMaterial
    /\ sh_light = <<>>
    /\ shade_n = <<>>
    /\ shade_cn = <<>>
    /\ lit_n = NoLit
    /\ lit_cn = NoLit
    /\ shpc = "idle"

InitShadeOnly ==
    /\ sh_normal \in ShadeNormals
    /\ sh_factor \in 1 .. MaxFactor
    /\ sh_material \in Materials
    /\ sh_light \in LightSources
    /\ shade_n = <<>>
    /\ shade_cn = <<>>
    /\ lit_n = NoLit
    /\ lit_cn = NoLit
    /\ shpc = "shade"

\* uniform_shading_model(n, material, light)
CallShade ==
    /\ shpc = "shade"
    /\ LET r == Shade(sh_normal, sh_material, sh_light)
       IN  shade_n' = r.color /\ sh_material' = r.material
    /\ shpc' = "shade_scaled"
    /\ UNCHANGED <<sh_normal, sh_factor, sh_light, shade_cn, lit_n, lit_cn>>
    /\ UNCHANGED notShade

\* uniform_shading_model(c * n, material, light)
CallShadeScaled ==
    /\ shpc = "shade_scaled"
    /\ LET r == Shade(ScaledNormal(sh_factor, sh_normal), sh_material, sh_light)
       IN  shade_cn' = r.color /\ sh_material' = r.material
    /\ shpc' = "illuminate"
    /\ UNCHANGED <<sh_normal, sh_factor, sh_light, shade_n, lit_n, lit_cn>>
    /\ UNCHANGED notShade

\* illuminate(n, material, light)
CallIlluminate ==
    /\ shpc = "illuminate"
    /\ lit_n' = Illuminate(sh_normal, sh_material, <<sh_light>>)
    /\ sh_material' = lit_n'.material
    /\ shpc' = "illuminate_scaled"
    /\ UNCHANGED <<sh_normal, sh_factor, sh_light, shade_n, shade_cn, lit_cn>>
    /\ UNCHANGED notShade

\* illuminate(c * n, material, light)
CallIlluminateScaled ==
    /\ shpc = "illuminate_scaled"
    /\ lit_cn' = Illuminate(ScaledNormal(sh_factor, sh_normal), sh_material,
                            <<sh_light>>)
    /\ sh_material' = lit_cn'.material
    /\ shpc' = "done"
    /\ UNCHANGED <<sh_normal, sh_factor, sh_light, shade_n, shade_cn, lit_n>>
    /\ UNCHANGED notShade

NextShade ==
    \/ CallShade
    \/ CallShadeScaled
    \/ CallIlluminate
    \/ CallIlluminateScaled

---------------------------------------------------------------------------
(* Claims about the normal of a shade                                      *)

\* C19 as stated: uniform_shading_model normalizes the normal itself, so
\* that the shade of c * n is the shade of n.
C19_ShadeNormalizes ==
    shpc \in {"illuminate", "illuminate_scaled", "done"} => shade_cn = shade_n

\* C19 amended: illuminate normalizes the normal itself, so that the colour
\* of c * n is the colour of n; uniform_shading_model takes the normal as it
\* is given, and handed a unit normal its clamped value is the colour
\* illuminate returns for one light.
C19_IlluminateNormalizes ==
    shpc = "done" =>
        /\ lit_n.raised = "none"
        /\ lit_cn = lit_n
        /\ sh_normal = <<0, 0, 1>> =>
               \A ch \in 1 .. 3 :
                   16 * lit_n.hex[2 * ch - 1] + lit_n.hex[2 * ch]
                       = FloatTo8BitInt(QClamp01(shade_n[ch]))

\* C19 witness: for a normal of length 5 and its double, illuminate has
\* returned the same colour and uniform_shading_model has not.
C19_Witness ==
    /\ shpc = "done"
    /\ sh_factor = 2
    /\ sh_normal = <<0, 3, 4>>
    /\ lit_cn = lit_n
    /\ shade_cn # shade_n

---------------------------------------------------------------------------
(* make_valid_polygons and _make_valid_polygons_single (glyphs.py).  A     *)
(* value handed around is a record: kind "points" for a list of (x, y)     *)
(* tuples, kind "Polygon" for a shapely Polygon with the coordinates of    *)
(* its exterior ring, kind "made valid" for what shapely's make_valid      *)
(* returns, which is not followed further.                                 *)

\* bound of the inputs: a point list has 3 .. MaxRing points
MaxRing == 4

PointList(pts) == [kind |-> "points", coords |-> pts]

\* shapely.geometry.Polygon(shell): the exterior ring is the point list,
\* closed with its first point when it is open; a Polygon is returned as
\* it is
ShapelyPolygon(shell) ==
    IF shell.kind = "Polygon" THEN shell
    ELSE LET pts == shell.coords
         IN  [kind |-> "Polygon",
              coords |-> IF pts[1] = pts[Len(pts)] THEN pts
                         ELSE Append(pts, pts[1])]

\* Twice the signed area of the triangle a, b, c.
Orient(a, b, c) ==
    (b[1] - a[1]) * (c[2] - a[2]) - (b[2] - a[2]) * (c[1] - a[1])

\* p lies on the segment from a to b.
OnSegment(p, a, b) ==
    /\ Orient(a, b, p) = 0
    /\ (p[1] - a[1]) * (p[1] - b[1]) <= 0
    /\ (p[2] - a[2]) * (p[2] - b[2]) <= 0

\* The segments a b and c d have a point in common.
SegmentsMeet(a, b, c, d) ==
    \/ OnSegment(a, c, d)
    \/ OnSegment(b, c, d)
    \/ OnSegment(c, a, b)
    \/ OnSegment(d, a, b)
    \/ /\ ISgn(Orient(a, b, c)) * ISgn(Orient(a, b, d)) < 0
       /\ ISgn(Orient(c, d, a)) * ISgn(Orient(c, d, b)) < 0

\* polygon.is_valid for a polygon without holes: the ring, repeated points
\* apart, has three vertices or more, and two of its edges meet only where
\* consecutive edges share their vertex
IsValid(polygon) ==
    LET ring == SubSeq(polygon.coords, 1, Len(polygon.coords) - 1)
        v == RemoveIdenticalAdjacentValues(ring, FALSE)
        n == Len(v)
        a(i) == At(v, i % n)
    IN  /\ n >= 3
        /\ \A i \in Range(n) :
               ~OnSegment(a(i + 2), a(i), a(i + 1)) /\ ~OnSegment(a(i), a(i + 1), a(i + 2))
        /\ \A i, j \in Range(n) :
               (i < j /\ j # i + 1 /\ (j + 1) % n # i) =>
                   ~SegmentsMeet(a(i), a(i + 1), a(j), a(j + 1))

\* shapely.validation.make_valid(polygon)
MakeValid(polygon) == [kind |-> "made valid", coords |-> polygon.coords]

\* _make_valid_polygons_single(pts)
MakeValidPolygonsSingle(pts) ==
    LET polygon == ShapelyPolygon(pts)
    IN  IF IsValid(polygon) THEN polygon ELSE MakeValid(polygon)

\* make_valid_polygons(*pts_lists)
MakeValidPolygons(pts_lists) ==
    [k \in 1 .. Len(pts_lists) |-> MakeValidPolygonsSingle(pts_lists[k])]

\* The points of the rings.
RingPoints == (0 .. 2) \X (0 .. 1)

notRepair ==
    <<dedupVars, unionVars, bevelVars, illumVars, pathVars, calibVars, xsectVars,
      materialVars, shadeVars, squaresVars, diamondVars, refVars>>

IdleRepair ==
    /\ mv_pts = <<>>
    /\ all_polygons = <<>>
    /\ all_again = <<>>
    /\ mvpc = "idle"

InitRepairOnly ==
    /\ mv_pts \in UNION {[1 .. n -> RingPoints] : n \in 3 .. MaxRing}
    /\ all_polygons = <<>>
    /\ all_again = <<>>
    /\ mvpc = "call"

\* make_valid_polygons(pts)
CallMakeValidPolygons ==
    /\ mvpc = "call"
    /\ all_polygons' = MakeValidPolygons(<<PointList(mv_pts)>>)
    /\ mvpc' = "again"
    /\ UNCHANGED <<mv_pts, all_again>>
    /\ UNCHANGED notRepair

\* make_valid_polygons(*all_polygons), for the polygons that were valid
CallMakeValidPolygonsAgain ==
    /\ mvpc = "again"
    /\ \A k \in 1 .. Len(all_polygons) : all_polygons[k].kind = "Polygon"
    /\ all_again' = MakeValidPolygons(all_polygons)
    /\ mvpc' = "done"
    /\ UNCHANGED <<mv_pts, all_polygons>>
    /\ UNCHANGED notRepair

NextRepair ==
    \/ CallMakeValidPolygons
    \/ CallMakeValidPolygonsAgain

---------------------------------------------------------------------------
(* Claims about make_valid_polygons                                        *)

\* mv_pts is a simple polygon: three points or more, no two of them equal,
\* and no two edges with a point in common but consecutive edges at their
\* vertex.
IsSimple(pts) ==
    /\ \A i, j \in 1 .. Len(pts) : i # j => pts[i] # pts[j]
    /\ IsValid(ShapelyPolygon(PointList(pts)))

\* q is p started at another index.
IsRotation(q, p) ==
    /\ Len(q) = Len(p)
    /\ \E s \in Range(Len(p)) :
           \A i \in Range(Len(p)) : At(q, i) = At(p, (i + s) % Len(p))

\* C20: make_valid_polygons applied to a simple polygon returns a list of
\* one element, a point list with the same points in the same cyclic order
\* (it may start at another index); applied again to that result it
\* returns the same.
C20_SimpleUnchanged ==
    (mvpc \in {"again", "done"} /\ IsSimple(mv_pts)) =>
        /\ Len(all_polygons) = 1
        /\ all_polygons[1].kind = "points"
        /\ IsRotation(all_polygons[1].coords, mv_pts)
        /\ mvpc = "done" => all_again = all_polygons

---------------------------------------------------------------------------
(* get_polygon_union (glyphs.py) on squares of side 1, with the            *)
(* coordinates of the rings returned.  The squares of the board have side  *)
(* 1/2, so a lattice point <<x, y>> stands for the point (x/2, y/2).       *)

\* The squares of side 1 of the board: [(0,0),(1,0),(1,1),(0,1)] is
\* {0, 1, 3, 4} and [(0.5,0.5),(1.5,0.5),(1.5,1.5),(0.5,1.5)] is {4, 5, 7, 8}.
Squares == { {0, 1, 3, 4}, {1, 2, 4, 5}, {3, 4, 6, 7}, {4, 5, 7, 8} }

LatticePts == (0 .. 3) \X (0 .. 3)

\* The region covers the board square in column col and row row.
Covers(region, col, row) ==
    col \in 0 .. 2 /\ row \in 0 .. 2 /\ (3 * row + col) \in region

\* The squares of the region around the lattice point p.
Around(region, p) ==
    {c \in {p[1] - 1, p[1]} \X {p[2] - 1, p[2]} : Covers(region, c[1], c[2])}

\* p lies on the boundary of the region.
OnBoundary(region, p) == Cardinality(Around(region, p)) \in 1 .. 3

\* The boundary of the region turns at p.
IsTurn(region, p) == Cardinality(Around(region, p)) \in {1, 3}

\* The region and the vertices of the local union after one iteration: the
\* overlay keeps, of the vertices of its two operands and of the points
\* where their boundaries cross, those on the boundary of the result.
StepNodes(nodes, u, poly, neg) ==
    LET new == StepUnion(u, poly, neg)
    IN  {p \in LatticePts :
            /\ OnBoundary(new, p)
            /\ IsTurn(new, p) \/ p \in nodes \/ IsTurn(poly, p)}

\* The lattice point after p on the boundary of the region, the region on
\* the right hand.
Onward(region, p) ==
    LET x == p[1]
        y == p[2]
    IN  CHOOSE q \in LatticePts :
            \/ q = <<x, y + 1>> /\ Covers(region, x, y) /\ ~Covers(region, x - 1, y)
            \/ q = <<x + 1, y>> /\ Covers(region, x, y - 1) /\ ~Covers(region, x, y)
            \/ q = <<x, y - 1>> /\ Covers(region, x - 1, y - 1) /\ ~Covers(region, x, y - 1)
            \/ q = <<x - 1, y>> /\ Covers(region, x - 1, y) /\ ~Covers(region, x - 1, y - 1)

\* The lattice points of the boundary from p round to start.
RECURSIVE Walk(_, _, _)
Walk(region, p, start) ==
    LET q == Onward(region, p)
    IN  IF q = start THEN <<p>> ELSE <<p>> \o Walk(region, q, start)

\* ring.coords: the vertices of the ring from start on, the first of them
\* again at the end
RingCoords(ring, nodes, start) ==
    LET kept == SelectSeq(Walk(ring, start, start), LAMBDA p : p \in nodes)
    IN  Append(kept, kept[1])

notSquares ==
    <<dedupVars, unionVars, bevelVars, illumVars, pathVars, calibVars, xsectVars,
      materialVars, shadeVars, repairVars, diamondVars, refVars>>

IdleSquares ==
    /\ sq_pnt_lists = <<>>
    /\ sq_negative = {}
    /\ sq_i = 0
    /\ sq_union = {}
    /\ sq_nodes = {}
    /\ sq_rings = <<>>
    /\ sqpc = "idle"

\* negative = negative or set(); union = unary_union([])
InitSquaresOnly ==
    /\ sq_pnt_lists \in [1 .. 2 -> Squares]
    /\ sq_negative \in SUBSET Range(2)
    /\ sq_i = 0
    /\ sq_union = {}
    /\ sq_nodes = {}
    /\ sq_rings = <<>>
    /\ sqpc = "loop"

\* One iteration of `for i, pts in enumerate(pnt_lists)`.
SquaresLoop ==
    /\ sqpc = "loop"
    /\ sq_i < Len(sq_pnt_lists)
    /\ sq_union' = StepUnion(sq_union, At(sq_pnt_lists, sq_i), sq_i \in sq_negative)
    /\ sq_nodes' = StepNodes(sq_nodes, sq_union, At(sq_pnt_lists, sq_i),
                             sq_i \in sq_negative)
    /\ sq_i' = sq_i + 1
    /\ UNCHANGED <<sq_pnt_lists, sq_negative, sq_rings, sqpc>>
    /\ UNCHANGED notSquares

\* The loop is over: the coordinates of the rings of the polygons of union
\* are returned, each ring from the vertex shapely starts it at.
SquaresReturn ==
    /\ sqpc = "loop"
    /\ sq_i = Len(sq_pnt_lists)
    /\ \E polygons \in Orderings(PolygonsOf(sq_union)) :
           LET regions == Flatten([k \in 1 .. Len(polygons) |->
                                      GetPolyCoords(polygons[k])])
           IN  \E starts \in [1 .. Len(regions) -> sq_nodes] :
                   /\ \A k \in 1 .. Len(regions) : OnBoundary(regions[k], starts[k])
                   /\ sq_rings' = [k \in 1 .. Len(regions) |->
                                      RingCoords(regions[k], sq_nodes, starts[k])]
    /\ sqpc' = "done"
    /\ UNCHANGED <<sq_pnt_lists, sq_negative, sq_i, sq_union, sq_nodes>>
    /\ UNCHANGED notSquares

NextSquares == SquaresLoop \/ SquaresReturn

---------------------------------------------------------------------------
(* Claims about get_polygon_union on the two unit squares                  *)

\* A = [(0,0),(1,0),(1,1),(0,1)] and B = [(0.5,0.5),(1.5,0.5),(1.5,1.5),(0.5,1.5)]
SquareA == {0, 1, 3, 4}
SquareB == {4, 5, 7, 8}

\* The list of s backwards.
Reversed(s) == [k \in 1 .. Len(s) |-> s[Len(s) + 1 - k]]

\* ring is the closed outline with the vertices verts, from any of them on
\* and in either direction.
IsOutlineOf(ring, verts) ==
    /\ Len(ring) = Len(verts) + 1
    /\ ring[Len(ring)] = ring[1]
    /\ LET open == SubSeq(ring, 1, Len(verts))
       IN  IsRotation(open, verts) \/ IsRotation(open, Reversed(verts))

\* The outline of A and B together, and of A without B, in half units.
OutlineOfBoth ==
    << <<0, 0>>, <<0, 2>>, <<1, 2>>, <<1, 3>>, <<3, 3>>, <<3, 1>>, <<2, 1>>, <<2, 0>> >>
OutlineOfRest ==
    << <<0, 0>>, <<0, 2>>, <<1, 2>>, <<1, 1>>, <<2, 1>>, <<2, 0>> >>

\* The two calls of the scenario have returned.
BothReturned ==
    sqpc = "done" /\ sq_pnt_lists = <<SquareA, SquareB>> /\ sq_negative = {}
RestReturned ==
    sqpc = "done" /\ sq_pnt_lists = <<SquareA, SquareB>> /\ sq_negative = {1}

\* C22 as stated: get_polygon_union(A, B) returns one outline of 8 vertices
\* and get_polygon_union(A, B, negative={1}) returns one outline of 4
\* vertices.
C22_FourVertexRemainder ==
    /\ BothReturned => Len(sq_rings) = 1 /\ IsOutlineOf(sq_rings[1], OutlineOfBoth)
    /\ RestReturned => Len(sq_rings) = 1 /\ Len(sq_rings[1]) - 1 = 4

\* C22 amended: get_polygon_union(A, B) returns one outline of 8 vertices,
\* and get_polygon_union(A, B, negative={1}) returns one outline, the L of
\* 6 vertices that covers A without the overlap; each list ends with its
\* first point again.
C22_SixVertexRemainder ==
    /\ BothReturned => Len(sq_rings) = 1 /\ IsOutlineOf(sq_rings[1], OutlineOfBoth)
    /\ RestReturned =>
           /\ Len(sq_rings) = 1
           /\ IsOutlineOf(sq_rings[1], OutlineOfRest)
           /\ sq_union = SquareA \ SquareB

\* C22 witness: B has been taken out of A and the one ring returned turns
\* at (0.5, 0.5), the corner of B inside A.
C22_Witness ==
    /\ RestReturned
    /\ Len(sq_rings) = 1
    /\ \E k \in 1 .. Len(sq_rings[1]) : sq_rings[1][k] = <<1, 1>>

---------------------------------------------------------------------------
(* _new_diamond (diamond.py): the bevels of the diamond.                   *)

\* bound of the inputs
MaxRad == 30

\* Z_BEVEL = 3 * 2 and BEVEL_SLOPE = 8
ZBevel == 6
BevelSlope == 8

\* offset_polygon(outer, gap) for the diamond: every edge moves by gap
\* towards the centre and stays parallel, so every corner, which lies on an
\* axis, moves by gap * sqrt(2) along it.
OffsetPolygon(pts, gap) ==
    [k \in 1 .. Len(pts) |->
        << ZSub(pts[k][1], <<0, 2 * gap * ZSgn(pts[k][1])>>),
           ZSub(pts[k][2], <<0, 2 * gap * ZSgn(pts[k][2])>>) >>]

\* vec2.qrotate(vec, quadrants): vec turned by quarter turns
RECURSIVE QRotate(_, _)
QRotate(v, quadrants) ==
    IF quadrants = 0 THEN v ELSE QRotate(<<ZNeg(v[2]), v[1]>>, quadrants - 1)

\* _get_bevel_surface_normal(pnt_a2, pnt_b2, slope): the cross product of
\* the vector from a to c (c one unit from a across the edge and slope
\* below it) and the vector from b to a.  The two calls of vec3.normalize
\* change the length only; the vector is kept as the cross product gives it.
GetBevelSurfaceNormal(pnt_a2, pnt_b2, slope) ==
    LET vec_ab2 == VSub(pnt_a2, pnt_b2)
        vec_ac2 == SetNorm(QRotate(vec_ab2, 3), 1).vec
        z == <<2 * slope, 0>>
    IN  << ZNeg(ZMul(z, vec_ab2[2])),
           ZMul(z, vec_ab2[1]),
           ZSub(ZMul(vec_ac2[1], vec_ab2[2]), ZMul(vec_ac2[2], vec_ab2[1])) >>

\* A plausible slip: the outer points are listed in the order of the inner
\* ones, which crosses the quad.
BevelQuadCrossed(inner, outer, i) ==
    <<At(inner, i), At(inner, (i + 1) % 4), At(outer, i), At(outer, (i + 1) % 4)>>

\* [inner[i], inner[(i + 1) % 4], outer[(i + 1) % 4], outer[i]]
BevelQuad(inner, outer, i) ==
    <<At(inner, i), At(inner, (i + 1) % 4), At(outer, (i + 1) % 4), At(outer, i)>>

notDiamond ==
    <<dedupVars, unionVars, bevelVars, illumVars, pathVars, calibVars, xsectVars,
      materialVars, shadeVars, repairVars, squaresVars, refVars>>

IdleDiamond ==
    /\ dm_rad = 0
    /\ dm_outer = <<>>
    /\ dm_inner = <<>>
    /\ dm_i = 0
    /\ dm_bevels = <<>>
    /\ dm_normals = <<>>
    /\ dmpc = "idle"

\* outer = _get_diamond_points(rad)
\* inner = [x.xsect for x in offset_polygon(outer, Z_BEVEL)]
InitDiamondOnly ==
    /\ dm_rad \in (2 * ZBevel) .. MaxRad
    /\ dm_outer = GetDiamondPoints(dm_rad)
    /\ dm_inner = OffsetPolygon(dm_outer, ZBevel)
    /\ dm_i = 0
    /\ dm_bevels = <<>>
    /\ dm_normals = <<>>
    /\ dmpc = "append"

\* One iteration of `for i in range(4)`; after the last one the paths of
\* outer and inner are added and the loop over the bevels starts.
NewDiamondAppend ==
    /\ dmpc = "append"
    /\ dm_bevels' = Append(dm_bevels, BevelQuad(dm_inner, dm_outer, dm_i))
    /\ dm_i' = IF dm_i = 3 THEN 0 ELSE dm_i + 1
    /\ dmpc' = IF dm_i = 3 THEN "fill" ELSE "append"
    /\ UNCHANGED <<dm_rad, dm_outer, dm_inner, dm_normals>>
    /\ UNCHANGED notDiamond

\* One iteration of the first `for bevel in bevels`:
\*     normal = _get_bevel_surface_normal(bevel[0], bevel[1], BEVEL_SLOPE)
\* After the last one the second loop outlines every bevel and the diamond
\* is returned.
NewDiamondFill ==
    /\ dmpc = "fill"
    /\ LET bevel == At(dm_bevels, dm_i)
       IN  dm_normals' = Append(dm_normals,
               [from |-> <<bevel[1], bevel[2]>>,
                normal |-> GetBevelSurfaceNormal(bevel[1], bevel[2], BevelSlope)])
    /\ dm_i' = dm_i + 1
    /\ dmpc' = IF dm_i + 1 = Len(dm_bevels) THEN "done" ELSE "fill"
    /\ UNCHANGED <<dm_rad, dm_outer, dm_inner, dm_bevels>>
    /\ UNCHANGED notDiamond

NextDiamond == NewDiamondAppend \/ NewDiamondFill

---------------------------------------------------------------------------
(* Claims about the bevels of the diamond                                  *)

\* C25: for the inner and the outer outline of the diamond, of n points
\* each, n quads are built, quad i being [inner[i], inner[(i+1) mod n],
\* outer[(i+1) mod n], outer[i]]; quad i and the next one, cyclically, share
\* the edge from inner[(i+1) mod n] to outer[(i+1) mod n]; and the normal
\* of each facet is computed from the first two points of its quad, two
\* consecutive points of the inner outline, to whose edge it is
\* perpendicular.
C25_BevelQuads ==
    dmpc = "done" =>
        LET n == Len(dm_outer)
        IN  /\ Len(dm_inner) = n
            /\ Len(dm_bevels) = n
            /\ Len(dm_normals) = n
            /\ \A i \in Range(n) :
                   LET quad == At(dm_bevels, i)
                       next == At(dm_bevels, (i + 1) % n)
                       facet == At(dm_normals, i)
                       edge == VSub(At(dm_inner, (i + 1) % n), At(dm_inner, i))
                   IN  /\ quad = <<At(dm_inner, i), At(dm_inner, (i + 1) % n),
                                   At(dm_outer, (i + 1) % n), At(dm_outer, i)>>
                       /\ quad[2] = next[1] /\ quad[3] = next[4]
                       /\ facet.from = <<At(dm_inner, i), At(dm_inner, (i + 1) % n)>>
                       /\ ZAdd(ZMul(facet.normal[1], edge[1]),
                               ZMul(facet.normal[2], edge[2])) = ZZero
                       /\ ZSgn(facet.normal[3]) # 0

\* C25 witness: the four bevels of a diamond are built and filled, and the
\* inner outline lies inside the outer one.
C25_Witness ==
    /\ dmpc = "done"
    /\ Len(dm_bevels) = 4
    /\ Len(dm_normals) = 4
    /\ dm_inner # dm_outer
    /\ \A i \in Range(4) :
           ZSgn(ZSub(Dot(At(dm_outer, i), At(dm_outer, i)),
                     Dot(At(dm_inner, i), At(dm_inner, i)))) > 0

---------------------------------------------------------------------------
(* The reference outlines (reference_paths.py): _get_pts_from_datastring   *)
(* followed by start_from_first_lexigraphically_sorted_point.              *)

\* bound of the inputs: the words after the leading M
MaxWords == 5

\* The words of the reference paths: the commands, points and numbers.
PairWord(x, y) == <<<<"n", x>>, Comma, <<"n", y>>>>
NumberWord(x) == <<<<"n", x>>>>
RefWords ==
    {<<Letter("L")>>, <<Letter("H")>>, <<Letter("V")>>, <<Letter("Z")>>,
     PairWord(0, 0), PairWord(1, 0), PairWord(1, 1), NumberWord(1)}

\* The comparison of two tuples of floats.
LexLess(p, q) == p[1] < q[1] \/ (p[1] = q[1] /\ p[2] < q[2])

\* min(pts)
MinPoint(pts) ==
    CHOOSE p \in {pts[k] : k \in 1 .. Len(pts)} :
        \A k \in 1 .. Len(pts) : ~LexLess(pts[k], p)

\* A plausible slip: the index of the last occurrence.
IndexLast(pts, value) ==
    CHOOSE i \in Range(Len(pts)) :
        /\ At(pts, i) = value
        /\ \A j \in Range(Len(pts)) : j > i => At(pts, j) # value

\* pts.index(value), for a value of the list
Index(pts, value) ==
    CHOOSE i \in Range(Len(pts)) :
        /\ At(pts, i) = value
        /\ \A j \in Range(Len(pts)) : j < i => At(pts, j) # value

\* start_from_first_lexigraphically_sorted_point(pts): the list, or the
\* ValueError of min for an empty list
StartFromFirstLexigraphicallySortedPoint(pts) ==
    IF pts = <<>> THEN Raise("ValueError")
    ELSE LET first_point == MinPoint(pts)
             first_point_index == Index(pts, first_point)
         IN  [raised |-> "none",
              pts |-> SubSeq(pts, first_point_index + 1, Len(pts))
                          \o SubSeq(pts, 1, first_point_index)]

notRef ==
    <<dedupVars, unionVars, bevelVars, illumVars, pathVars, calibVars, xsectVars,
      materialVars, shadeVars, repairVars, squaresVars, diamondVars>>

IdleRef ==
    /\ ref_datastring = <<>>
    /\ ref_pts = Raise("none")
    /\ ref_first = Raise("none")
    /\ ref_again = Raise("none")
    /\ rfpc = "idle"

\* The attribute d of a path of the reference image: an M and the words
\* after it, one space between two words.
InitRefOnly ==
    /\ \E words \in SeqsUpTo(RefWords, MaxWords) :
           ref_datastring = Join(<< <<Letter("M")>> >> \o words, <<Space>>)
    /\ ref_pts = Raise("none")
    /\ ref_first = Raise("none")
    /\ ref_again = Raise("none")
    /\ rfpc = "call"

\* _get_pts(name)
CallGetPtsFromDatastring ==
    /\ rfpc = "call"
    /\ ref_pts' = GetPtsFromDatastring(ref_datastring)
    /\ rfpc' = "parsed"
    /\ UNCHANGED <<ref_datastring, ref_first, ref_again>>
    /\ UNCHANGED notRef

\* start_from_first_lexigraphically_sorted_point(_get_pts(name))
CallStartFromFirst ==
    /\ rfpc = "parsed"
    /\ ref_pts.raised = "none"
    /\ ref_first' = StartFromFirstLexigraphicallySortedPoint(ref_pts.pts)
    /\ rfpc' = "sorted"
    /\ UNCHANGED <<ref_datastring, ref_pts, ref_again>>
    /\ UNCHANGED notRef

\* The function called on its own result.
CallStartFromFirstAgain ==
    /\ rfpc = "sorted"
    /\ ref_first.raised = "none"
    /\ ref_again' = StartFromFirstLexigraphicallySortedPoint(ref_first.pts)
    /\ rfpc' = "again"
    /\ UNCHANGED <<ref_datastring, ref_pts, ref_first>>
    /\ UNCHANGED notRef

NextRef == CallGetPtsFromDatastring \/ CallStartFromFirst \/ CallStartFromFirstAgain

---------------------------------------------------------------------------
(* Claims about the reference outlines                                     *)

\* The places of the coordinate words among the words ws of a string, and
\* the command the word at place k stands under.
IsCommandWord(w) == Len(w) = 1 /\ w[1][1] \in {"M", "L", "H", "V", "Z"}
CoordinateWords(ws) == SortedSeq({k \in 1 .. Len(ws) : ~IsCommandWord(ws[k])})
CommandOf(ws, k) ==
    LET before == {j \in 1 .. (k - 1) : IsCommandWord(ws[j])}
    IN  IF before = {} THEN "M"
        ELSE ws[CHOOSE j \in before : \A h \in before : h <= j][1][1]
IsPairWord(w) == Len(w) = 3 /\ w[1][1] = "n" /\ w[2] = Comma /\ w[3][1] = "n"
IsNumberWord(w) == Len(w) = 1 /\ w[1][1] = "n"

\* An absolute linear path: a pair 'x,y' for every word under M or L, a
\* number for every word under H or V, a point before the first H or V,
\* no word under Z, and one point at least.
IsLinearPath(ws) ==
    LET cw == CoordinateWords(ws)
    IN  /\ cw # <<>>
        /\ \A j \in 1 .. Len(cw) :
               LET c == CommandOf(ws, cw[j])
               IN  /\ c \in {"M", "L"} => IsPairWord(ws[cw[j]])
                   /\ c \in {"H", "V"} => IsNumberWord(ws[cw[j]]) /\ j > 1
                   /\ c # "Z"

\* The points of the coordinate words from the j-th on, one for each, in
\* their order, after the points pts of the words before.
RECURSIVE Expanded(_, _, _, _)
Expanded(ws, cw, j, pts) ==
    IF j > Len(cw) THEN pts
    ELSE LET w == ws[cw[j]]
             c == CommandOf(ws, cw[j])
             pt == IF c \in {"M", "L"} THEN <<3 * w[1][2], 3 * w[3][2]>>
                   ELSE IF c = "H" THEN <<3 * w[1][2], pts[Len(pts)][2]>>
                   ELSE <<pts[Len(pts)][1], 3 * w[1][2]>>
         IN  Expanded(ws, cw, j + 1, Append(pts, pt))

\* C26: for an absolute linear path _get_pts_from_datastring returns one
\* point for every coordinate word, in the order of the words: (x, y) for a
\* word 'x,y' under M or L, (x, y of the point before) for a word under H,
\* (x of the point before, y) for a word under V, nothing for Z; and when
\* the last of these points equals the first, that last point is left out,
\* once.
C26_WordByWord ==
    rfpc = "parsed" =>
        LET ws == Words(ref_datastring)
            n == Len(CoordinateWords(ws))
            all == Expanded(ws, CoordinateWords(ws), 1, <<>>)
            closed == all[1] = all[n]
        IN  IsLinearPath(ws) =>
                /\ ref_pts.raised = "none"
                /\ ref_pts.pts = IF closed THEN SubSeq(all, 1, n - 1) ELSE all
                /\ Len(ref_pts.pts) = IF closed THEN n - 1 ELSE n

\* C26 witness: a path with a word under H and points under L has been
\* read; it comes back to its first point, not at once, and that last
\* point is left out.
C26_Witness ==
    /\ rfpc = "parsed"
    /\ LET ws == Words(ref_datastring)
           cw == CoordinateWords(ws)
           all == Expanded(ws, cw, 1, <<>>)
       IN  /\ IsLinearPath(ws)
           /\ \E j, k \in 1 .. Len(cw) :
                  CommandOf(ws, cw[j]) = "H" /\ CommandOf(ws, cw[k]) = "L"
           /\ all[1] # all[2]
           /\ Len(cw) >= 3
           /\ all[1] = all[Len(cw)]
           /\ Len(ref_pts.pts) = Len(cw) - 1

\* The first place of a smallest point of the list read.
FirstSmallest ==
    CHOOSE k \in Range(Len(ref_pts.pts)) :
        /\ \A j \in Range(Len(ref_pts.pts)) :
               ~LexLess(At(ref_pts.pts, j), At(ref_pts.pts, k))
        /\ \A j \in Range(Len(ref_pts.pts)) :
               j < k => At(ref_pts.pts, j) # At(ref_pts.pts, k)

\* C27: for a list with a point, the result of
\* start_from_first_lexigraphically_sorted_point has the length of the
\* list and holds its points in the same cyclic order, beginning at the
\* first place of its lexicographically smallest point; the function gives
\* this result back when it is called on it.
C27_Rotation ==
    (rfpc \in {"sorted", "again"} /\ ref_pts.pts # <<>>) =>
        LET n == Len(ref_pts.pts)
        IN  /\ ref_first.raised = "none"
            /\ Len(ref_first.pts) = n
            /\ \A i \in Range(n) :
                   At(ref_first.pts, i) = At(ref_pts.pts, (i + FirstSmallest) % n)
            /\ \A i \in Range(n) : ~LexLess(At(ref_pts.pts, i), ref_first.pts[1])
            /\ rfpc = "again" => ref_again = ref_first

\* C27 witness: the smallest point of the list read stands at two places,
\* none of them the first, the rotations to the two places differ, and the
\* function has been called on its own result.
C27_Witness ==
    /\ rfpc = "again"
    /\ Len(ref_pts.pts) = 4
    /\ FirstSmallest = 1
    /\ At(ref_pts.pts, 3) = At(ref_pts.pts, 1)
    /\ At(ref_pts.pts, 0) # At(ref_pts.pts, 2)
    /\ ref_first.pts # ref_pts.pts

---------------------------------------------------------------------------
(* The specifications.                                                     *)

InitDedup == InitDedupOnly /\ IdleUnion /\ IdleBevel /\ IdleIllum /\ IdlePath /\ IdleCalib /\ IdleXsect /\ IdleMaterial /\ IdleShade /\ IdleRepair /\ IdleSquares /\ IdleDiamond /\ IdleRef
InitUnion == InitUnionOnly /\ IdleDedup /\ IdleBevel /\ IdleIllum /\ IdlePath /\ IdleCalib /\ IdleXsect /\ IdleMaterial /\ IdleShade /\ IdleRepair /\ IdleSquares /\ IdleDiamond /\ IdleRef
InitBevel == InitBevelOnly /\ IdleDedup /\ IdleUnion /\ IdleIllum /\ IdlePath /\ IdleCalib /\ IdleXsect /\ IdleMaterial /\ IdleShade /\ IdleRepair /\ IdleSquares /\ IdleDiamond /\ IdleRef
InitIllum == InitIllumOnly /\ IdleDedup /\ IdleUnion /\ IdleBevel /\ IdlePath /\ IdleCalib /\ IdleXsect /\ IdleMaterial /\ IdleShade /\ IdleRepair /\ IdleSquares /\ IdleDiamond /\ IdleRef
InitPath == InitPathOnly /\ IdleDedup /\ IdleUnion /\ IdleBevel /\ IdleIllum /\ IdleCalib /\ IdleXsect /\ IdleMaterial /\ IdleShade /\ IdleRepair /\ IdleSquares /\ IdleDiamond /\ IdleRef

InitCalib ==
    InitCalibOnly /\ IdleDedup /\ IdleUnion /\ IdleBevel /\ IdleIllum /\ IdlePath /\ IdleXsect /\ IdleMaterial /\ IdleShade /\ IdleRepair /\ IdleSquares /\ IdleDiamond /\ IdleRef

InitXsect ==
    InitXsectOnly /\ IdleDedup /\ IdleUnion /\ IdleBevel /\ IdleIllum /\ IdlePath /\ IdleCalib /\ IdleMaterial /\ IdleShade /\ IdleRepair /\ IdleSquares /\ IdleDiamond /\ IdleRef

InitMaterial ==
    InitMaterialOnly /\ IdleDedup /\ IdleUnion /\ IdleBevel /\ IdleIllum /\ IdlePath /\ IdleCalib /\ IdleXsect /\ IdleShade /\ IdleRepair /\ IdleSquares /\ IdleDiamond /\ IdleRef

InitShade ==
    InitShadeOnly /\ IdleDedup /\ IdleUnion /\ IdleBevel /\ IdleIllum /\ IdlePath /\ IdleCalib /\ IdleXsect /\ IdleMaterial /\ IdleRepair /\ IdleSquares /\ IdleDiamond /\ IdleRef

InitRepair ==
    InitRepairOnly /\ IdleDedup /\ IdleUnion /\ IdleBevel /\ IdleIllum /\ IdlePath /\ IdleCalib /\ IdleXsect /\ IdleMaterial /\ IdleShade /\ IdleSquares /\ IdleDiamond /\ IdleRef

InitSquares ==
    InitSquaresOnly /\ IdleDedup /\ IdleUnion /\ IdleBevel /\ IdleIllum /\ IdlePath /\ IdleCalib /\ IdleXsect /\ IdleMaterial /\ IdleShade /\ IdleRepair /\ IdleDiamond /\ IdleRef

InitDiamond ==
    InitDiamondOnly /\ IdleDedup /\ IdleUnion /\ IdleBevel /\ IdleIllum /\ IdlePath /\ IdleCalib /\ IdleXsect /\ IdleMaterial /\ IdleShade /\ IdleRepair /\ IdleSquares /\ IdleRef

InitRef ==
    InitRefOnly /\ IdleDedup /\ IdleUnion /\ IdleBevel /\ IdleIllum /\ IdlePath /\ IdleCalib /\ IdleXsect /\ IdleMaterial /\ IdleShade /\ IdleRepair /\ IdleSquares /\ IdleDiamond

SpecDedup == InitDedup /\ [][NextDedup]_vars
SpecUnion == InitUnion /\ [][NextUnion]_vars
SpecBevel == InitBevel /\ [][NextBevel]_vars
SpecIllum == InitIllum /\ [][NextIllum]_vars
SpecPath == InitPath /\ [][NextPath]_vars
SpecCalib == InitCalib /\ [][NextCalib]_vars
SpecXsect == InitXsect /\ [][NextXsect]_vars
SpecMaterial == InitMaterial /\ [][NextMaterial]_vars
SpecShade == InitShade /\ [][NextShade]_vars
SpecRepair == InitRepair /\ [][NextRepair]_vars
SpecSquares == InitSquares /\ [][NextSquares]_vars
SpecDiamond == InitDiamond /\ [][NextDiamond]_vars
SpecRef == InitRef /\ [][NextRef]_vars

\* The calibration is one call in one thread: while it has not ended, it
\* moves on to its next position.
SpecCalibFair == SpecCalib /\ WF_cpc(CalibStep)

=============================================================================
